---- MODULE Spec2Model ----
(***************************************************************************)
(* The LLO reporting plugin (llo/plugin.go): the Outcome transition of one *)
(* protocol instance, the Reports it emits, and the lifecycle of the       *)
(* instance (staging -> production -> retired).                            *)
(*                                                                         *)
(* One state of the model is one point in the life of a protocol instance: *)
(* the OutcomeContext of the latest Outcome call (seqNr, previousOutcome), *)
(* the attributed observations it was given, what it returned, and what    *)
(* Reports returned for it.                                                *)
(***************************************************************************)
EXTENDS Integers, Sequences, FiniteSets, TLC

VARIABLES
    F,                        \* LLOPlugin.F
    PredecessorConfigDigest,  \* LLOPlugin.PredecessorConfigDigest (NilDigest = nil)
    seqNr,                    \* outctx.SeqNr of the round
    previousOutcome,          \* outctx.PreviousOutcome of the latest Outcome call
    aos,                      \* the attributed observations of the latest Outcome call
    result,                   \* what the latest Outcome call returned
    rwis,                     \* what Reports returned for that outcome
    lastProductionReports,    \* channel -> ValidUntilSeconds of the channel reports
                              \* emitted for the latest production outcome
    obs,                      \* what the oracle's latest Observation call returned
    verdict,                  \* the latest ValidateObservation call and its answer
    codec,                    \* a report handed to the JSON codec, its encoding and
                              \* what decoding the encoding gave
    addedAt                   \* channel -> observations timestamp (seconds) of the
                              \* round that added the channel to ChannelDefinitions

vars == <<F, PredecessorConfigDigest, seqNr, previousOutcome, aos, result, rwis,
          lastProductionReports, obs, verdict, codec, addedAt>>

----------------------------------------------------------------------------
(* Bounds of the model *)

MaxF == 1      \* F ranges over 0..MaxF
MaxObs == 3    \* an Outcome call gets at most MaxObs attributed observations
MaxSeq == 4    \* the rounds are those of seqNr 1..MaxSeq
MaxRampUpSeq == 102  \* the rounds of an instance that ramps up its channels

----------------------------------------------------------------------------
(* Program constants *)

MAX_OBSERVATION_REMOVE_CHANNEL_IDS_LENGTH == 5
MAX_OBSERVATION_ADD_CHANNEL_DEFINITIONS_LENGTH == 5
MAX_OBSERVATION_STREAM_VALUES_LENGTH == 1000

MAX_OUTCOME_CHANNEL_DEFINITIONS_LENGTH == 500

NanosPerSecond == 1000000000

LifeCycleStageStaging == "staging"
LifeCycleStageProduction == "production"
LifeCycleStageRetired == "retired"

ReportFormatEVM == "evm"
ReportFormatJSON == "json"

NilDigest == "nil"
PredecessorDigest == "predecessor"
ConfigDigest == "digest"

\* The report formats with a registered codec (LLOPlugin.Codecs).
Codecs == {ReportFormatJSON}

\* The selectors chainselectors.ChainIdFromSelector resolves (small stand-ins
\* for the library's 64-bit selectors).
KnownChainSelectors == {1}

----------------------------------------------------------------------------
(* Helpers on maps (functions with a finite domain) and sequences *)

EmptyMap == <<>>

Restrict(f, S) == [x \in S |-> f[x]]

RECURSIVE Perms(_)
Perms(S) ==
    IF S = {} THEN {<<>>}
    ELSE UNION {{<<x>> \o p : p \in Perms(S \ {x})} : x \in S}

RemoveAt(s, i) == [j \in 1..(Len(s) - 1) |-> IF j < i THEN s[j] ELSE s[j + 1]]

\* sort.Slice with an ascending "less" on integers
RECURSIVE SortAscending(_)
SortAscending(s) ==
    IF Len(s) <= 1 THEN s
    ELSE LET i == CHOOSE k \in 1..Len(s) : \A j \in 1..Len(s) : s[k] <= s[j]
         IN  <<s[i]>> \o SortAscending(RemoveAt(s, i))

RECURSIVE SortedSeqOfSet(_)
SortedSeqOfSet(S) ==
    IF S = {} THEN <<>>
    ELSE LET m == CHOOSE x \in S : \A y \in S : x <= y
         IN  <<m>> \o SortedSeqOfSet(S \ {m})

----------------------------------------------------------------------------
(* Outcome and its methods *)

\* The bytes of "no outcome yet": json.Unmarshal fails on them.
NilOutcome ==
    [LifeCycleStage |-> "",
     ObservationsTimestampNanoseconds |-> 0,
     ChannelDefinitions |-> EmptyMap,
     ValidAfterSeconds |-> EmptyMap,
     StreamMedians |-> EmptyMap]

\* The seconds of the timestamp without the check of the range.
ObservationsTimestampSecondsUnchecked(out) ==
    [err |-> FALSE, val |-> out.ObservationsTimestampNanoseconds \div NanosPerSecond]

\* time.Unix(0, ns).Unix() rounds towards minus infinity; the result must fit
\* a uint32. Timestamps of 2^32 seconds and more are outside the integers the
\* checker handles, so only the lower end of the range can fail here.
ObservationsTimestampSeconds(out) ==
    LET seconds == out.ObservationsTimestampNanoseconds \div NanosPerSecond
    IN  IF seconds < 0 THEN [err |-> TRUE, val |-> 0]
        ELSE [err |-> FALSE, val |-> seconds]

\* IsReportable without the check of the validity window (lines 491-495).
IsReportableAnyWindow(out, channelID) ==
    /\ out.LifeCycleStage # LifeCycleStageRetired
    /\ ~ObservationsTimestampSeconds(out).err
    /\ channelID \in DOMAIN out.ChannelDefinitions
    /\ out.ChannelDefinitions[channelID].ChainSelector \in KnownChainSelectors
    /\ \A i \in 1..Len(out.ChannelDefinitions[channelID].StreamIDs) :
          out.ChannelDefinitions[channelID].StreamIDs[i] \in DOMAIN out.StreamMedians
    /\ channelID \in DOMAIN out.ValidAfterSeconds

\* IsReportable without the check of the stage (line 462).
IsReportableWhateverStage(out, channelID) ==
    /\ ~ObservationsTimestampSeconds(out).err
    /\ channelID \in DOMAIN out.ChannelDefinitions
    /\ out.ChannelDefinitions[channelID].ChainSelector \in KnownChainSelectors
    /\ \A i \in 1..Len(out.ChannelDefinitions[channelID].StreamIDs) :
          out.ChannelDefinitions[channelID].StreamIDs[i] \in DOMAIN out.StreamMedians
    /\ channelID \in DOMAIN out.ValidAfterSeconds
    /\ out.ValidAfterSeconds[channelID] < ObservationsTimestampSeconds(out).val

IsReportable(out, channelID) ==
    /\ out.LifeCycleStage # LifeCycleStageRetired
    /\ ~ObservationsTimestampSeconds(out).err
    /\ channelID \in DOMAIN out.ChannelDefinitions
    /\ out.ChannelDefinitions[channelID].ChainSelector \in KnownChainSelectors
    /\ \A i \in 1..Len(out.ChannelDefinitions[channelID].StreamIDs) :
          out.ChannelDefinitions[channelID].StreamIDs[i] \in DOMAIN out.StreamMedians
    /\ channelID \in DOMAIN out.ValidAfterSeconds
    /\ out.ValidAfterSeconds[channelID] < ObservationsTimestampSeconds(out).val

ReportableChannels(out) ==
    SortedSeqOfSet({c \in DOMAIN out.ChannelDefinitions : IsReportable(out, c)})

----------------------------------------------------------------------------
(* MakeChannelHash and the predecessor's retirement reports *)

\* SHA-256 over channel id, length and bytes of the format, chain selector,
\* number of stream ids and the stream ids: modelled by the hashed tuple
\* itself (no collisions).
MakeChannelHash(cd) ==
    <<cd.ChannelID,
      cd.ChannelDefinition.ReportFormat,
      cd.ChannelDefinition.ChainSelector,
      Len(cd.ChannelDefinition.StreamIDs),
      cd.ChannelDefinition.StreamIDs>>

\* Observation.AttestedPredecessorRetirement: empty, the attested report of the
\* predecessor, or bytes that do not verify.
NoRetirement == ""
AttestedR1 == "attestedR1"
Forged == "forged"

RetirementReportR1 == [ValidAfterSeconds |-> (1 :> 1) @@ (2 :> 5)]

\* PredecessorRetirementReportCache.CheckAttestedRetirementReport
CheckAttestedRetirementReport(pcd, attestedRetirementReport) ==
    IF pcd = PredecessorDigest /\ attestedRetirementReport = AttestedR1
    THEN [err |-> FALSE, report |-> RetirementReportR1]
    ELSE [err |-> TRUE, report |-> [ValidAfterSeconds |-> EmptyMap]]

----------------------------------------------------------------------------
(* LLOPlugin.Outcome *)

\* json.Unmarshal of the bytes of an attributed observation. The bytes are
\* modelled by whether they decode and by the fields a decoder finds in them
\* (bytes that fail to decode can still fill some fields before the error).
Unmarshal(ao) == [err |-> ~ao.decodes, observation |-> ao.fields]

Count(f, k) == IF k \in DOMAIN f THEN f[k] ELSE 0

InitialTally ==
    [panic |-> FALSE,
     validPredecessorRetirementReport |->
         [present |-> FALSE, report |-> [ValidAfterSeconds |-> EmptyMap]],
     shouldRetireVotes |-> 0,
     timestampsNanoseconds |-> <<>>,
     removeChannelVotesByID |-> EmptyMap,
     addChannelVotesByHash |-> EmptyMap,
     addChannelDefinitionsByHash |-> EmptyMap,
     streamObservations |-> EmptyMap]

\* The part of the loop body after the retirement check (lines 601-624).
Accumulate(acc, observation) ==
    LET adds == {[ChannelDefinition |-> observation.AddChannelDefinitions[c],
                  ChannelID |-> c] : c \in DOMAIN observation.AddChannelDefinitions}
        hashes == {MakeChannelHash(d) : d \in adds}
        validIDs == {id \in DOMAIN observation.StreamValues :
                        observation.StreamValues[id].Valid}
    IN  [acc EXCEPT
          !.shouldRetireVotes = IF observation.ShouldRetire THEN @ + 1 ELSE @,
          !.timestampsNanoseconds = Append(@, observation.UnixTimestampNanoseconds),
          !.removeChannelVotesByID =
              [c \in DOMAIN @ \cup observation.RemoveChannelIDs |->
                  Count(@, c) + (IF c \in observation.RemoveChannelIDs THEN 1 ELSE 0)],
          !.addChannelVotesByHash =
              [h \in DOMAIN @ \cup hashes |->
                  Count(@, h) + (IF h \in hashes THEN 1 ELSE 0)],
          !.addChannelDefinitionsByHash =
              [h \in DOMAIN @ \cup hashes |->
                  IF h \in hashes
                  THEN CHOOSE d \in adds : MakeChannelHash(d) = h
                  ELSE @[h]],
          !.streamObservations =
              [id \in DOMAIN @ \cup validIDs |->
                  (IF id \in DOMAIN @ THEN @[id] ELSE <<>>)
                  \o (IF id \in validIDs
                      THEN <<observation.StreamValues[id].Val>> ELSE <<>>)]]

\* The loop body without the "continue" for bytes that do not decode.
TallyObservationCountsMalformed(acc, ao, pcd) ==
    LET observation == Unmarshal(ao).observation
    IN  IF acc.panic THEN acc
        ELSE IF /\ observation.AttestedPredecessorRetirement # NoRetirement
                /\ ~acc.validPredecessorRetirementReport.present
        THEN IF pcd = NilDigest
             THEN [acc EXCEPT !.panic = TRUE]
             ELSE LET chk == CheckAttestedRetirementReport(
                                 pcd, observation.AttestedPredecessorRetirement)
                  IN  IF chk.err THEN acc
                      ELSE Accumulate(
                             [acc EXCEPT !.validPredecessorRetirementReport =
                                 [present |-> TRUE, report |-> chk.report]],
                             observation)
        ELSE Accumulate(acc, observation)

\* The loop body taking an attested retirement report without its check.
TallyObservationUnchecked(acc, ao, pcd) ==
    LET decoded == Unmarshal(ao)
        observation == decoded.observation
    IN  IF acc.panic THEN acc
        ELSE IF decoded.err THEN acc
        ELSE IF /\ observation.AttestedPredecessorRetirement # NoRetirement
                /\ ~acc.validPredecessorRetirementReport.present
        THEN IF pcd = NilDigest
             THEN [acc EXCEPT !.panic = TRUE]
             ELSE Accumulate(
                    [acc EXCEPT !.validPredecessorRetirementReport =
                        [present |-> TRUE,
                         report |-> CheckAttestedRetirementReport(
                             pcd, observation.AttestedPredecessorRetirement).report]],
                    observation)
        ELSE Accumulate(acc, observation)

\* The loop body that, when the attested retirement report fails its check,
\* leaves the report aside and counts the rest of the observation.
TallyObservationKeepsRest(acc, ao, pcd) ==
    LET decoded == Unmarshal(ao)
        observation == decoded.observation
    IN  IF acc.panic THEN acc
        ELSE IF decoded.err THEN acc
        ELSE IF /\ observation.AttestedPredecessorRetirement # NoRetirement
                /\ ~acc.validPredecessorRetirementReport.present
        THEN IF pcd = NilDigest
             THEN [acc EXCEPT !.panic = TRUE]
             ELSE LET chk == CheckAttestedRetirementReport(
                                 pcd, observation.AttestedPredecessorRetirement)
                  IN  IF chk.err THEN Accumulate(acc, observation)
                      ELSE Accumulate(
                             [acc EXCEPT !.validPredecessorRetirementReport =
                                 [present |-> TRUE, report |-> chk.report]],
                             observation)
        ELSE Accumulate(acc, observation)

\* One iteration of "for _, ao := range aos" (lines 583-625).
TallyObservation(acc, ao, pcd) ==
    LET decoded == Unmarshal(ao)
        observation == decoded.observation
    IN  IF acc.panic THEN acc
        ELSE IF decoded.err THEN acc
        ELSE IF /\ observation.AttestedPredecessorRetirement # NoRetirement
                /\ ~acc.validPredecessorRetirementReport.present
        THEN IF pcd = NilDigest
             THEN [acc EXCEPT !.panic = TRUE]  \* *p.PredecessorConfigDigest of nil
             ELSE LET chk == CheckAttestedRetirementReport(
                                 pcd, observation.AttestedPredecessorRetirement)
                  IN  IF chk.err THEN acc
                      ELSE Accumulate(
                             [acc EXCEPT !.validPredecessorRetirementReport =
                                 [present |-> TRUE, report |-> chk.report]],
                             observation)
        ELSE Accumulate(acc, observation)

RECURSIVE DecodeObservations(_, _, _, _)
DecodeObservations(list, i, acc, pcd) ==
    IF i > Len(list) THEN acc
    ELSE DecodeObservations(list, i + 1, TallyObservation(acc, list[i], pcd), pcd)

Tally(list, pcd) == DecodeObservations(list, 1, InitialTally, pcd)

\* The first outcome starting in production whatever the configuration.
InitialOutcomeAlwaysProduction(pcd) ==
    [LifeCycleStage |-> LifeCycleStageProduction,
     ObservationsTimestampNanoseconds |-> 0,
     ChannelDefinitions |-> EmptyMap,
     ValidAfterSeconds |-> EmptyMap,
     StreamMedians |-> EmptyMap]

\* The outcome of seqNr 1 (lines 537-554).
InitialOutcome(pcd) ==
    [LifeCycleStage |-> IF pcd = NilDigest THEN LifeCycleStageProduction
                        ELSE LifeCycleStageStaging,
     ObservationsTimestampNanoseconds |-> 0,
     ChannelDefinitions |-> EmptyMap,
     ValidAfterSeconds |-> EmptyMap,
     StreamMedians |-> EmptyMap]

Ok(out) == [status |-> "ok", outcome |-> out]
Failed(why) == [status |-> why, outcome |-> NilOutcome]

\* Promotion on a valid retirement report whatever the previous stage.
IsPromotionAnyStage(prev, tally) == tally.validPredecessorRetirementReport.present

\* Promotion from staging on a valid retirement report (line 636).
IsPromotion(prev, tally) ==
    /\ prev.LifeCycleStage = LifeCycleStageStaging
    /\ tally.validPredecessorRetirementReport.present

\* The stage with "at least f" for "more than f" retire votes.
NextLifeCycleStageAtLeastF(prev, tally, f) ==
    LET promoted == IF IsPromotion(prev, tally) THEN LifeCycleStageProduction
                    ELSE prev.LifeCycleStage
    IN  IF promoted = LifeCycleStageProduction /\ tally.shouldRetireVotes >= f
        THEN LifeCycleStageRetired
        ELSE promoted

\* outcome.LifeCycleStage (lines 636-649)
NextLifeCycleStage(prev, tally, f) ==
    LET promoted == IF IsPromotion(prev, tally) THEN LifeCycleStageProduction
                    ELSE prev.LifeCycleStage
    IN  IF promoted = LifeCycleStageProduction /\ tally.shouldRetireVotes > f
        THEN LifeCycleStageRetired
        ELSE promoted

\* The lower median: the element at (zero-based) index (len-1)/2.
MedianLower(values) == SortAscending(values)[((Len(values) - 1) \div 2) + 1]

\* The largest of the values instead of the one in the middle.
MedianLargest(values) == SortAscending(values)[Len(values)]

\* Rank-k median: the element at (zero-based) index len/2 of the sorted values
\* (lines 653-654, 756 and 767).
Median(values) == SortAscending(values)[(Len(values) \div 2) + 1]

\* The removed channel ids without the stop at retirement.
RemovedChannelIDsWhenRetired(tally, stage, f) ==
    {c \in DOMAIN tally.removeChannelVotesByID : tally.removeChannelVotesByID[c] > f}

\* The removed channel ids with "at least f" for "more than f" votes.
RemovedChannelIDsAtLeastF(tally, stage, f) ==
    IF stage = LifeCycleStageRetired THEN {}
    ELSE {c \in DOMAIN tally.removeChannelVotesByID :
             tally.removeChannelVotesByID[c] >= f}

\* The channel ids with more than f remove votes (lines 669-676); none once
\* retired (lines 665-667).
RemovedChannelIDs(tally, stage, f) ==
    IF stage = LifeCycleStageRetired THEN {}
    ELSE {c \in DOMAIN tally.removeChannelVotesByID :
             tally.removeChannelVotesByID[c] > f}

\* The loop that lets an add vote with more than f votes replace the
\* definition of a channel that exists.
RECURSIVE AddChannelsOverwriting(_, _, _, _, _)
AddChannelsOverwriting(defs, order, i, tally, f) ==
    IF i > Len(order) THEN defs
    ELSE LET defWithID == tally.addChannelDefinitionsByHash[order[i]]
             voteCount == tally.addChannelVotesByHash[order[i]]
             skip == \/ voteCount <= f
                     \/ Cardinality(DOMAIN defs) > MAX_OUTCOME_CHANNEL_DEFINITIONS_LENGTH
             next == IF skip THEN defs
                     ELSE [c \in DOMAIN defs \cup {defWithID.ChannelID} |->
                              IF c = defWithID.ChannelID
                              THEN defWithID.ChannelDefinition ELSE defs[c]]
         IN  AddChannelsOverwriting(next, order, i + 1, tally, f)

\* The loop over addChannelDefinitionsByHash (lines 678-698), visiting the
\* hashes in the order Go's map iteration happens to produce.
RECURSIVE AddChannels(_, _, _, _, _)
AddChannels(defs, order, i, tally, f) ==
    IF i > Len(order) THEN defs
    ELSE LET defWithID == tally.addChannelDefinitionsByHash[order[i]]
             voteCount == tally.addChannelVotesByHash[order[i]]
             skip == \/ voteCount <= f
                     \/ defWithID.ChannelID \in DOMAIN defs
                     \/ Cardinality(DOMAIN defs) > MAX_OUTCOME_CHANNEL_DEFINITIONS_LENGTH
             next == IF skip THEN defs
                     ELSE [c \in DOMAIN defs \cup {defWithID.ChannelID} |->
                              IF c = defWithID.ChannelID
                              THEN defWithID.ChannelDefinition ELSE defs[c]]
         IN  AddChannels(next, order, i + 1, tally, f)

\* outcome.ChannelDefinitions (lines 659-698)
NextChannelDefinitions(prev, tally, stage, order, f) ==
    LET removed == RemovedChannelIDs(tally, stage, f)
        kept == Restrict(prev.ChannelDefinitions,
                         DOMAIN prev.ChannelDefinitions \ removed)
    IN  IF stage = LifeCycleStageRetired THEN kept
        ELSE AddChannels(kept, order, 1, tally, f)

\* The value the loop of lines 714-725 gives a channel of the previous
\* outcome. outcome.ChannelDefinitions and previousOutcome.ChannelDefinitions
\* are one and the same map (line 659), so previousOutcome.IsReportable sees
\* the definitions as edited by this round. (The map is a fresh one only when
\* the previous definitions are nil, which is the initial outcome, and that
\* has no ValidAfterSeconds to loop over.)
CarriedValidAfterSeconds(prev, defs, channelID) ==
    IF ~IsReportable([prev EXCEPT !.ChannelDefinitions = defs], channelID)
    THEN ObservationsTimestampSeconds(prev).val
    ELSE prev.ValidAfterSeconds[channelID]

\* The valid-after map always carried over from the previous outcome, the
\* retirement report of a promotion left aside.
InheritedValidAfterSecondsRecomputed(prev, tally, defs) ==
    [c \in DOMAIN prev.ValidAfterSeconds |-> CarriedValidAfterSeconds(prev, defs, c)]

\* outcome.ValidAfterSeconds before the new and the removed channels are
\* seen to: the retirement report's map on promotion (line 641), else the map
\* carried over from the previous outcome (lines 707-726).
InheritedValidAfterSeconds(prev, tally, defs) ==
    IF IsPromotion(prev, tally)
    THEN tally.validPredecessorRetirementReport.report.ValidAfterSeconds
    ELSE [c \in DOMAIN prev.ValidAfterSeconds |->
             CarriedValidAfterSeconds(prev, defs, c)]

\* The medians with "at least f" for "more than f" observations.
NextStreamMediansAtLeastF(tally, f) ==
    [id \in {s \in DOMAIN tally.streamObservations :
                Len(tally.streamObservations[s]) >= f} |->
        Median(tally.streamObservations[id])]

\* outcome.StreamMedians (lines 754-768)
NextStreamMedians(tally, f) ==
    [id \in {s \in DOMAIN tally.streamObservations :
                Len(tally.streamObservations[s]) > f} |->
        Median(tally.streamObservations[id])]

\* The outcome whose ValidAfterSeconds, unless it is taken over from a
\* retirement report, keeps only the channels mentioned in ChannelDefinitions.
BuildOutcomePruningValidAfter(prev, tally, order, f) ==
    LET promotion == IsPromotion(prev, tally)
        stage == NextLifeCycleStage(prev, tally, f)
        timestamp == Median(tally.timestampsNanoseconds)
        defs == NextChannelDefinitions(prev, tally, stage, order, f)
        removed == RemovedChannelIDs(tally, stage, f)
        base == InheritedValidAfterSeconds(prev, tally, defs)
        draft == [LifeCycleStage |-> stage,
                  ObservationsTimestampNanoseconds |-> timestamp,
                  ChannelDefinitions |-> defs,
                  ValidAfterSeconds |-> base,
                  StreamMedians |-> NextStreamMedians(tally, f)]
        seconds == ObservationsTimestampSeconds(draft)
        withNew == [c \in DOMAIN base \cup DOMAIN defs |->
                       IF c \in DOMAIN base THEN base[c] ELSE seconds.val]
    IN  IF ~promotion /\ ObservationsTimestampSeconds(prev).err
        THEN Failed("error")
        ELSE IF seconds.err THEN Failed("error")
        ELSE Ok([draft EXCEPT !.ValidAfterSeconds =
                    Restrict(withNew,
                             IF promotion THEN DOMAIN withNew \ removed
                             ELSE (DOMAIN withNew \ removed) \cap DOMAIN defs)])

\* Lines 631-770: the outcome built from the tally of the observations.
BuildOutcome(prev, tally, order, f) ==
    LET promotion == IsPromotion(prev, tally)
        stage == NextLifeCycleStage(prev, tally, f)
        timestamp == Median(tally.timestampsNanoseconds)
        defs == NextChannelDefinitions(prev, tally, stage, order, f)
        removed == RemovedChannelIDs(tally, stage, f)
        base == InheritedValidAfterSeconds(prev, tally, defs)
        draft == [LifeCycleStage |-> stage,
                  ObservationsTimestampNanoseconds |-> timestamp,
                  ChannelDefinitions |-> defs,
                  ValidAfterSeconds |-> base,
                  StreamMedians |-> NextStreamMedians(tally, f)]
        seconds == ObservationsTimestampSeconds(draft)
        withNew == [c \in DOMAIN base \cup DOMAIN defs |->
                       IF c \in DOMAIN base THEN base[c] ELSE seconds.val]
    IN  IF ~promotion /\ ObservationsTimestampSeconds(prev).err
        THEN Failed("error")
        ELSE IF seconds.err THEN Failed("error")
        ELSE Ok([draft EXCEPT !.ValidAfterSeconds =
                    Restrict(withNew, DOMAIN withNew \ removed)])

\* LLOPlugin.Outcome (lines 532-771). order is the iteration order of
\* addChannelDefinitionsByHash.
Outcome(f, pcd, seq, prev, list, order) ==
    IF Len(list) < 2 * f + 1 THEN Failed("error")
    ELSE IF seq <= 1 THEN Ok(InitialOutcome(pcd))
    ELSE IF prev = NilOutcome THEN Failed("error")
    ELSE LET tally == Tally(list, pcd)
         IN  IF tally.panic THEN Failed("panic")
             ELSE IF Len(tally.timestampsNanoseconds) = 0 THEN Failed("error")
             ELSE BuildOutcome(prev, tally, order, f)

\* The orders in which the hashes of the add votes can be visited.
IterationOrders(list, pcd) == Perms(DOMAIN Tally(list, pcd).addChannelDefinitionsByHash)

----------------------------------------------------------------------------
(* LLOPlugin.Reports *)

\* An encoder that has a codec for every format.
encodeReportAnyFormat(r, format) ==
    [err |-> FALSE, encoded |-> [codec |-> format, report |-> r]]

\* encodeReport (lines 793-799): the codec registered for the format encodes
\* the report; the encoding is kept as the pair of codec and report.
encodeReport(r, format) ==
    IF format \notin Codecs THEN [err |-> TRUE, encoded |-> <<>>]
    ELSE [err |-> FALSE, encoded |-> [codec |-> format, report |-> r]]

\* The retirement report of lines 836-846 (json.Marshal of RetirementReport).
RetirementReportWithInfo(out) ==
    [Report |-> [codec |-> ReportFormatJSON,
                 report |-> [ValidAfterSeconds |-> out.ValidAfterSeconds]],
     Info |-> [LifeCycleStage |-> out.LifeCycleStage,
               ReportFormat |-> ReportFormatJSON]]

\* The Report with the values in the order of the stream ids, not of the
\* channel's list.
ChannelReportStreamsAscending(seq, out, channelID) ==
    LET channelDefinition == out.ChannelDefinitions[channelID]
        ids == SortAscending(channelDefinition.StreamIDs)
    IN  [ConfigDigest |-> ConfigDigest,
         ChainSelector |-> channelDefinition.ChainSelector,
         SeqNr |-> seq,
         ChannelID |-> channelID,
         ValidAfterSeconds |-> out.ValidAfterSeconds[channelID],
         ValidUntilSeconds |-> ObservationsTimestampSeconds(out).val,
         Values |-> [i \in 1..Len(ids) |-> out.StreamMedians[ids[i]]],
         Specimen |-> out.LifeCycleStage # LifeCycleStageProduction]

\* The Report that is never marked as a specimen.
ChannelReportNeverSpecimen(seq, out, channelID) ==
    LET channelDefinition == out.ChannelDefinitions[channelID]
    IN  [ConfigDigest |-> ConfigDigest,
         ChainSelector |-> channelDefinition.ChainSelector,
         SeqNr |-> seq,
         ChannelID |-> channelID,
         ValidAfterSeconds |-> out.ValidAfterSeconds[channelID],
         ValidUntilSeconds |-> ObservationsTimestampSeconds(out).val,
         Values |-> [i \in 1..Len(channelDefinition.StreamIDs) |->
                        out.StreamMedians[channelDefinition.StreamIDs[i]]],
         Specimen |-> FALSE]

\* The Report of lines 850-865 for one reportable channel.
ChannelReport(seq, out, channelID) ==
    LET channelDefinition == out.ChannelDefinitions[channelID]
    IN  [ConfigDigest |-> ConfigDigest,
         ChainSelector |-> channelDefinition.ChainSelector,
         SeqNr |-> seq,
         ChannelID |-> channelID,
         ValidAfterSeconds |-> out.ValidAfterSeconds[channelID],
         ValidUntilSeconds |-> ObservationsTimestampSeconds(out).val,
         Values |-> [i \in 1..Len(channelDefinition.StreamIDs) |->
                        out.StreamMedians[channelDefinition.StreamIDs[i]]],
         Specimen |-> out.LifeCycleStage # LifeCycleStageProduction]

ChannelReportWithInfo(seq, out, channelID) ==
    LET format == out.ChannelDefinitions[channelID].ReportFormat
    IN  [Report |-> encodeReport(ChannelReport(seq, out, channelID), format).encoded,
         Info |-> [LifeCycleStage |-> out.LifeCycleStage, ReportFormat |-> format]]

\* LLOPlugin.Reports (lines 814-885)
Reports(seq, out) ==
    LET channels == ReportableChannels(out)
        retirement == IF out.LifeCycleStage = LifeCycleStageRetired
                      THEN <<RetirementReportWithInfo(out)>> ELSE <<>>
    IN  IF seq <= 1 THEN [status |-> "ok", reports |-> <<>>]
        ELSE IF out = NilOutcome THEN [status |-> "error", reports |-> <<>>]
        ELSE IF ObservationsTimestampSeconds(out).err
        THEN [status |-> "error", reports |-> <<>>]
        ELSE IF \E i \in 1..Len(channels) :
                   encodeReport(ChannelReport(seq, out, channels[i]),
                                out.ChannelDefinitions[channels[i]].ReportFormat).err
        THEN [status |-> "error", reports |-> <<>>]
        ELSE [status |-> "ok",
              reports |-> retirement \o
                  [i \in 1..Len(channels) |-> ChannelReportWithInfo(seq, out, channels[i])]]

----------------------------------------------------------------------------
(* The JSON report codec: JSONReportCodec.Encode and JSONReportCodec.Decode *)

\* Text is a sequence of characters; a fixed piece of text stands as one
\* element.
DigitChars == <<"0", "1", "2", "3", "4", "5", "6", "7", "8", "9">>
HexChars == DigitChars \o <<"a", "b", "c", "d", "e", "f">>

IsDigit(c) == \E i \in 1..10 : DigitChars[i] = c
DigitValue(c) == (CHOOSE i \in 1..10 : DigitChars[i] = c) - 1
IsHex(c) == \E i \in 1..16 : HexChars[i] = c
HexValue(c) == (CHOOSE i \in 1..16 : HexChars[i] = c) - 1

\* The position of the first element of s equal to c, 0 if there is none.
IndexOf(s, c) ==
    IF \E i \in 1..Len(s) : s[i] = c
    THEN CHOOSE i \in 1..Len(s) : s[i] = c /\ \A j \in 1..(i - 1) : s[j] # c
    ELSE 0

ConfigDigestLength == 32

\* ConfigDigest is written as lower-case hex without prefix, two characters
\* for a byte.
EncodeConfigDigest(digest) ==
    [i \in 1..(2 * Len(digest)) |->
        IF i % 2 = 1 THEN HexChars[(digest[(i + 1) \div 2] \div 16) + 1]
        ELSE HexChars[(digest[i \div 2] % 16) + 1]]

DecodeConfigDigest(text) ==
    IF \E i \in 1..Len(text) : ~IsHex(text[i]) THEN [err |-> TRUE, val |-> <<>>]
    ELSE IF Len(text) # 2 * ConfigDigestLength THEN [err |-> TRUE, val |-> <<>>]
    ELSE [err |-> FALSE,
          val |-> [i \in 1..ConfigDigestLength |->
                      16 * HexValue(text[2 * i - 1]) + HexValue(text[2 * i])]]

\* A decimal is a whole number of units of 10^-DecimalScale.
DecimalScale == 2
DecimalUnit == 10 ^ DecimalScale

RECURSIVE NaturalDigits(_)
NaturalDigits(n) ==
    IF n < 10 THEN <<DigitChars[n + 1]>>
    ELSE NaturalDigits(n \div 10) \o <<DigitChars[(n % 10) + 1]>>

RECURSIVE NaturalOf(_)
NaturalOf(digits) ==
    IF digits = <<>> THEN 0
    ELSE 10 * NaturalOf(SubSeq(digits, 1, Len(digits) - 1)) + DigitValue(digits[Len(digits)])

RECURSIVE TrimTrailingZeros(_)
TrimTrailingZeros(digits) ==
    IF digits # <<>> /\ digits[Len(digits)] = "0"
    THEN TrimTrailingZeros(SubSeq(digits, 1, Len(digits) - 1))
    ELSE digits

\* The digits after the point: the fraction at full scale, without its
\* trailing zeros.
FractionDigits(part) ==
    LET digits == NaturalDigits(part)
    IN  TrimTrailingZeros([i \in 1..(DecimalScale - Len(digits)) |-> "0"] \o digits)

\* A decimal string whose fraction has lost its leading zeros (0.05 as 0.5).
FormatDecimalUnpadded(d) ==
    LET abs == IF d < 0 THEN -d ELSE d
        whole == abs \div DecimalUnit
        part == abs % DecimalUnit
    IN  (IF d < 0 THEN <<"-">> ELSE <<>>)
        \o NaturalDigits(whole)
        \o (IF part = 0 THEN <<>>
            ELSE <<".">> \o TrimTrailingZeros(NaturalDigits(part)))

\* The decimal string of a decimal: sign, whole part, and the fraction
\* without trailing zeros when it is not zero.
FormatDecimal(d) ==
    LET abs == IF d < 0 THEN -d ELSE d
        whole == abs \div DecimalUnit
        part == abs % DecimalUnit
    IN  (IF d < 0 THEN <<"-">> ELSE <<>>)
        \o NaturalDigits(whole)
        \o (IF part = 0 THEN <<>> ELSE <<".">> \o FractionDigits(part))

ParseDecimal(text) ==
    LET negative == Len(text) > 0 /\ text[1] = "-"
        body == IF negative THEN Tail(text) ELSE text
        point == IndexOf(body, ".")
        whole == IF point = 0 THEN body ELSE SubSeq(body, 1, point - 1)
        fraction == IF point = 0 THEN <<>> ELSE SubSeq(body, point + 1, Len(body))
        padded == fraction \o [i \in 1..(DecimalScale - Len(fraction)) |-> "0"]
        wellFormed ==
            /\ whole # <<>>
            /\ \A i \in 1..Len(whole) : IsDigit(whole[i])
            /\ point # 0 => fraction # <<>>
            /\ Len(fraction) <= DecimalScale
            /\ \A i \in 1..Len(fraction) : IsDigit(fraction[i])
    IN  IF ~wellFormed THEN [err |-> TRUE, val |-> 0]
        ELSE LET abs == DecimalUnit * NaturalOf(whole) + NaturalOf(padded)
             IN  [err |-> FALSE, val |-> IF negative THEN -abs ELSE abs]

\* Stream values in a report: a Decimal, a Quote of three decimals, or none.
ToDecimal(d) == [Type |-> 0, Decimal |-> d]
Quote(bid, benchmark, ask) == [Type |-> 1, Bid |-> bid, Benchmark |-> benchmark, Ask |-> ask]
NilStreamValue == [Nil |-> TRUE]

JSONNull == [Null |-> TRUE]

\* "Q{Bid: <d>, Benchmark: <d>, Ask: <d>}"
FormatQuote(q) ==
    <<"Q{Bid: ">> \o FormatDecimal(q.Bid) \o <<", Benchmark: ">>
    \o FormatDecimal(q.Benchmark) \o <<", Ask: ">> \o FormatDecimal(q.Ask) \o <<"}">>

ParseQuote(text) ==
    LET benchmarkAt == IndexOf(text, ", Benchmark: ")
        askAt == IndexOf(text, ", Ask: ")
        framed ==
            /\ Len(text) >= 2
            /\ text[1] = "Q{Bid: "
            /\ text[Len(text)] = "}"
            /\ 1 < benchmarkAt
            /\ benchmarkAt < askAt
        bid == ParseDecimal(SubSeq(text, 2, benchmarkAt - 1))
        benchmark == ParseDecimal(SubSeq(text, benchmarkAt + 1, askAt - 1))
        ask == ParseDecimal(SubSeq(text, askAt + 1, Len(text) - 1))
    IN  IF ~framed THEN [err |-> TRUE, val |-> NilStreamValue]
        ELSE IF bid.err \/ benchmark.err \/ ask.err THEN [err |-> TRUE, val |-> NilStreamValue]
        ELSE [err |-> FALSE, val |-> Quote(bid.val, benchmark.val, ask.val)]

\* {"Type": t, "Value": s} with t = 0 for a Decimal and t = 1 for a Quote;
\* null for no value.
EncodeStreamValue(sv) ==
    IF sv = NilStreamValue THEN JSONNull
    ELSE IF sv.Type = 0 THEN [Type |-> 0, Value |-> FormatDecimal(sv.Decimal)]
    ELSE [Type |-> 1, Value |-> FormatQuote(sv)]

DecodeStreamValue(json) ==
    IF json = JSONNull THEN [err |-> FALSE, val |-> NilStreamValue]
    ELSE IF json.Type = 0
    THEN LET d == ParseDecimal(json.Value)
         IN  [err |-> d.err, val |-> IF d.err THEN NilStreamValue ELSE ToDecimal(d.val)]
    ELSE IF json.Type = 1 THEN ParseQuote(json.Value)
    ELSE [err |-> TRUE, val |-> NilStreamValue]

\* The JSON document of a report, its fields in the order of the Report.
JSONReportCodecEncode(r) ==
    [err |-> FALSE,
     json |-> [ConfigDigest |-> EncodeConfigDigest(r.ConfigDigest),
               SeqNr |-> r.SeqNr,
               ChannelID |-> r.ChannelID,
               ValidAfterSeconds |-> r.ValidAfterSeconds,
               ObservationTimestampSeconds |-> r.ObservationTimestampSeconds,
               Values |-> [i \in 1..Len(r.Values) |-> EncodeStreamValue(r.Values[i])],
               Specimen |-> r.Specimen]]

\* Decode fails on a document without SeqNr ("missing SeqNr"; a SeqNr of zero
\* reads as none), on a ConfigDigest that is not 32 bytes of hex, and on a
\* stream value that does not decode.
JSONReportCodecDecode(json) ==
    LET digest == DecodeConfigDigest(json.ConfigDigest)
        values == [i \in 1..Len(json.Values) |-> DecodeStreamValue(json.Values[i])]
    IN  IF json.SeqNr = 0 THEN [err |-> TRUE]
        ELSE IF digest.err THEN [err |-> TRUE]
        ELSE IF \E i \in 1..Len(values) : values[i].err THEN [err |-> TRUE]
        ELSE [err |-> FALSE,
              report |-> [ConfigDigest |-> digest.val,
                          SeqNr |-> json.SeqNr,
                          ChannelID |-> json.ChannelID,
                          ValidAfterSeconds |-> json.ValidAfterSeconds,
                          ObservationTimestampSeconds |-> json.ObservationTimestampSeconds,
                          Values |-> [i \in 1..Len(values) |-> values[i].val],
                          Specimen |-> json.Specimen]]

----------------------------------------------------------------------------
(* LLOPlugin.Observation and LLOPlugin.ValidateObservation *)

\* The bytes of an observation: whether they decode and the fields a decoder
\* finds in them. The empty byte string is marked as such; it does not decode.
ZeroFields ==
    [AttestedPredecessorRetirement |-> NoRetirement,
     ShouldRetire |-> FALSE,
     UnixTimestampNanoseconds |-> 0,
     RemoveChannelIDs |-> {},
     AddChannelDefinitions |-> EmptyMap,
     StreamValues |-> EmptyMap]

EmptyObservation == [decodes |-> FALSE, fields |-> ZeroFields, empty |-> TRUE]

IsEmptyObservation(ao) == "empty" \in DOMAIN ao

\* json.Marshal of an Observation: bytes that decode to the same fields.
Marshal(fields) == [decodes |-> TRUE, fields |-> fields]

\* An ObsResult whose Val is nil has no Val field.
IsNilVal(obsResult) == "Val" \notin DOMAIN obsResult

\* The elements of a set of integers in ascending order (sort.Slice on the
\* channel ids), by halving the interval they lie in.
RECURSIVE AscendingBetween(_, _, _)
AscendingBetween(S, lo, hi) ==
    IF lo = hi THEN (IF lo \in S THEN <<lo>> ELSE <<>>)
    ELSE AscendingBetween(S, lo, (lo + hi) \div 2)
             \o AscendingBetween(S, ((lo + hi) \div 2) + 1, hi)

Ascending(S) ==
    IF S = {} THEN <<>>
    ELSE AscendingBetween(S, CHOOSE x \in S : \A y \in S : x <= y,
                             CHOOSE x \in S : \A y \in S : y <= x)

\* The first k elements of a sequence (differenceList[:limit]).
Truncate(s, k) == IF Len(s) > k THEN SubSeq(s, 1, k) ELSE s

\* The difference cut down to the "limit" highest ids instead of the lowest.
subtractChannelDefinitionsLargest(minuend, subtrahend, limit) ==
    LET ids == Ascending(DOMAIN minuend \ DOMAIN subtrahend)
        differenceList == IF Len(ids) > limit
                          THEN SubSeq(ids, Len(ids) - limit + 1, Len(ids))
                          ELSE ids
    IN  Restrict(minuend, {differenceList[i] : i \in 1..Len(differenceList)})

\* subtractChannelDefinitions (lines 913-936): the definitions of the minuend
\* whose id the subtrahend lacks, the "limit" lowest ids of them.
subtractChannelDefinitions(minuend, subtrahend, limit) ==
    LET differenceList ==
            Truncate(Ascending(DOMAIN minuend \ DOMAIN subtrahend), limit)
    IN  Restrict(minuend, {differenceList[i] : i \in 1..Len(differenceList)})

\* The loop over previousOutcome.ValidAfterSeconds (lines 335-342), visiting
\* the channel ids in the order Go's map iteration happens to produce: the
\* ids the cache lacks are added, in that order, until there are
\* MAX_OBSERVATION_REMOVE_CHANNEL_IDS_LENGTH ids.
RemoveStaleValidAfter(removeChannelIDs, order, expectedChannelDefs) ==
    LET stale == SelectSeq(order, LAMBDA c : /\ c \notin DOMAIN expectedChannelDefs
                                            /\ c \notin removeChannelIDs)
        taken == Truncate(stale, MAX_OBSERVATION_REMOVE_CHANNEL_IDS_LENGTH
                                     - Cardinality(removeChannelIDs))
    IN  removeChannelIDs \cup {taken[i] : i \in 1..Len(taken)}

\* The streams of the channels of an outcome (lines 349-354).
StreamsOf(defs) ==
    UNION {{defs[c].StreamIDs[i] : i \in 1..Len(defs[c].StreamIDs)} : c \in DOMAIN defs}

\* DataSource.Observe: an entry for each stream asked for that the source
\* knows, or an error.
Observe(source, streams) ==
    [err |-> source.err,
     values |-> Restrict(source.values, streams \cap DOMAIN source.values)]

\* LLOPlugin.Observation (lines 286-381). now is the clock, attested and
\* retire are what the two caches answer, expectedChannelDefs what the
\* channel definition cache holds, source the data source, order the
\* iteration order of previousOutcome.ValidAfterSeconds.
Observation(pcd, seq, prev, now, attested, retire, expectedChannelDefs, source, order) ==
    LET fetch == pcd # NilDigest /\ prev.LifeCycleStage = LifeCycleStageStaging
        removeChannelDefinitions ==
            subtractChannelDefinitions(prev.ChannelDefinitions, expectedChannelDefs,
                                       MAX_OBSERVATION_REMOVE_CHANNEL_IDS_LENGTH)
        removeChannelIDs ==
            RemoveStaleValidAfter(DOMAIN removeChannelDefinitions, order,
                                  expectedChannelDefs)
        addChannelDefinitions ==
            subtractChannelDefinitions(expectedChannelDefs, prev.ChannelDefinitions,
                                       MAX_OBSERVATION_ADD_CHANNEL_DEFINITIONS_LENGTH)
        streamValues == Observe(source, StreamsOf(prev.ChannelDefinitions))
    IN  IF seq < 1 THEN [status |-> "error", ao |-> EmptyObservation]
        ELSE IF seq = 1 THEN [status |-> "ok", ao |-> EmptyObservation]
        ELSE IF prev = NilOutcome THEN [status |-> "error", ao |-> EmptyObservation]
        ELSE IF fetch /\ attested.err THEN [status |-> "error", ao |-> EmptyObservation]
        ELSE IF retire.err THEN [status |-> "error", ao |-> EmptyObservation]
        ELSE IF streamValues.err THEN [status |-> "error", ao |-> EmptyObservation]
        ELSE [status |-> "ok",
              ao |-> Marshal(
                  [AttestedPredecessorRetirement |->
                       IF fetch THEN attested.bytes ELSE NoRetirement,
                   ShouldRetire |-> retire.val,
                   UnixTimestampNanoseconds |-> now,
                   RemoveChannelIDs |-> removeChannelIDs,
                   AddChannelDefinitions |-> addChannelDefinitions,
                   StreamValues |-> streamValues.values])]

\* ValidateObservation rejecting a size that reaches its limit.
ValidateObservationBelowLimit(pcd, seq, ao) ==
    LET observation == IF IsEmptyObservation(ao) THEN ZeroFields ELSE ao.fields
    IN  IF seq <= 1 /\ ~IsEmptyObservation(ao) THEN "not empty"
        ELSE IF ~IsEmptyObservation(ao) /\ ~ao.decodes THEN "invalid json"
        ELSE IF /\ pcd = NilDigest
                /\ observation.AttestedPredecessorRetirement # NoRetirement
        THEN "no predecessor"
        ELSE IF Cardinality(DOMAIN observation.AddChannelDefinitions)
                    >= MAX_OBSERVATION_ADD_CHANNEL_DEFINITIONS_LENGTH
        THEN "AddChannelDefinitions is too long"
        ELSE IF Cardinality(observation.RemoveChannelIDs)
                    >= MAX_OBSERVATION_REMOVE_CHANNEL_IDS_LENGTH
        THEN "RemoveChannelIDs is too long"
        ELSE IF Cardinality(DOMAIN observation.StreamValues)
                    >= MAX_OBSERVATION_STREAM_VALUES_LENGTH
        THEN "StreamValues is too long"
        ELSE IF \E streamID \in DOMAIN observation.StreamValues :
                   /\ observation.StreamValues[streamID].Valid
                   /\ IsNilVal(observation.StreamValues[streamID])
        THEN "nil value"
        ELSE "ok"

\* LLOPlugin.ValidateObservation (lines 391-430): "ok" or the reason of the
\* rejection.
ValidateObservation(pcd, seq, ao) ==
    LET observation == IF IsEmptyObservation(ao) THEN ZeroFields ELSE ao.fields
    IN  IF seq <= 1 /\ ~IsEmptyObservation(ao) THEN "not empty"
        ELSE IF ~IsEmptyObservation(ao) /\ ~ao.decodes THEN "invalid json"
        ELSE IF /\ pcd = NilDigest
                /\ observation.AttestedPredecessorRetirement # NoRetirement
        THEN "no predecessor"
        ELSE IF Cardinality(DOMAIN observation.AddChannelDefinitions)
                    > MAX_OBSERVATION_ADD_CHANNEL_DEFINITIONS_LENGTH
        THEN "AddChannelDefinitions is too long"
        ELSE IF Cardinality(observation.RemoveChannelIDs)
                    > MAX_OBSERVATION_REMOVE_CHANNEL_IDS_LENGTH
        THEN "RemoveChannelIDs is too long"
        ELSE IF Cardinality(DOMAIN observation.StreamValues)
                    > MAX_OBSERVATION_STREAM_VALUES_LENGTH
        THEN "StreamValues is too long"
        ELSE IF \E streamID \in DOMAIN observation.StreamValues :
                   /\ observation.StreamValues[streamID].Valid
                   /\ IsNilVal(observation.StreamValues[streamID])
        THEN "nil value"
        ELSE "ok"

----------------------------------------------------------------------------
(* The observations the oracles send *)

DefA == [ReportFormat |-> ReportFormatJSON, ChainSelector |-> 1, StreamIDs |-> <<1>>]
DefB == [ReportFormat |-> ReportFormatEVM, ChainSelector |-> 1, StreamIDs |-> <<1, 2>>]

OneSecond == NanosPerSecond
TwoSeconds == 2 * NanosPerSecond

Value(v) == [Valid |-> TRUE, Val |-> v]

Fields(retirement, retire, ts, remove, add, values) ==
    [AttestedPredecessorRetirement |-> retirement,
     ShouldRetire |-> retire,
     UnixTimestampNanoseconds |-> ts,
     RemoveChannelIDs |-> remove,
     AddChannelDefinitions |-> add,
     StreamValues |-> values]

WellFormed(fields) == [decodes |-> TRUE, fields |-> fields]
Malformed(fields) == [decodes |-> FALSE, fields |-> fields]

\* Bytes that fail to decode after the decoder has filled some fields.
Garbage ==
    Malformed(Fields(NoRetirement, TRUE, TwoSeconds, {1}, (1 :> DefB), (1 :> Value(30))))

BeforeEpoch == WellFormed(Fields(NoRetirement, FALSE, -1, {}, EmptyMap, (1 :> Value(10))))
PlainAt2 == WellFormed(Fields(NoRetirement, FALSE, TwoSeconds, {}, EmptyMap, (1 :> Value(20))))
AddA == WellFormed(Fields(NoRetirement, FALSE, OneSecond, {}, (1 :> DefA), (1 :> Value(10))))
AddB == WellFormed(Fields(NoRetirement, FALSE, OneSecond, {}, (1 :> DefB), EmptyMap))
Remove1 == WellFormed(Fields(NoRetirement, FALSE, TwoSeconds, {1}, EmptyMap,
                             (1 :> [Valid |-> FALSE, Val |-> 0])))
Retire == WellFormed(Fields(NoRetirement, TRUE, TwoSeconds, {}, EmptyMap, (1 :> Value(20))))
Handover == WellFormed(Fields(AttestedR1, FALSE, OneSecond, {}, EmptyMap, (1 :> Value(10))))
BadHandover == WellFormed(Fields(Forged, TRUE, TwoSeconds, {1}, (1 :> DefB), (1 :> Value(30))))

\* What the oracles of an instance without predecessor send.
ProductionObservations == {Garbage, BeforeEpoch, PlainAt2, AddA, AddB, Retire}

\* What the oracles of an instance with a predecessor send.
SuccessorObservations == {Handover, BadHandover, AddA, Remove1, Retire}

Lists(observations) == UNION {[1..n -> observations] : n \in 0..MaxObs}

----------------------------------------------------------------------------
(* The protocol instance *)

NoResult == [status |-> "none", outcome |-> NilOutcome]
NoReports == [status |-> "none", reports |-> <<>>]
NoObservation == [status |-> "none", ao |-> EmptyObservation]
NoVerdict == [status |-> "none", ao |-> EmptyObservation]
NoCodec == [status |-> "none"]

InitWith(pcd) ==
    /\ F \in 0..MaxF
    /\ PredecessorConfigDigest = pcd
    /\ seqNr = 1
    /\ previousOutcome = NilOutcome
    /\ aos = <<>>
    /\ result = NoResult
    /\ rwis = NoReports
    /\ lastProductionReports = EmptyMap
    /\ obs = NoObservation
    /\ verdict = NoVerdict
    /\ codec = NoCodec
    /\ addedAt = EmptyMap

Init == InitWith(NilDigest)
InitSuccessor == InitWith(PredecessorDigest)

\* The engine calls Outcome for the round, with the attributed observations
\* it has gathered. (addedAt is left to the caller: it is kept only for an
\* instance whose new channels are followed.)
OutcomeCall(list, order) ==
    /\ result.status = "none"
    /\ aos' = list
    /\ result' = Outcome(F, PredecessorConfigDigest, seqNr, previousOutcome, list, order)
    /\ lastProductionReports' =
          IF /\ result'.status = "ok"
             /\ result'.outcome.LifeCycleStage = LifeCycleStageProduction
          THEN EmptyMap
          ELSE lastProductionReports
    /\ UNCHANGED <<F, PredecessorConfigDigest, seqNr, previousOutcome, rwis,
                   obs, verdict, codec>>

\* The engine calls Reports for the outcome of the round.
ReportsCall ==
    /\ result.status = "ok"
    /\ rwis.status = "none"
    /\ rwis' = Reports(seqNr, result.outcome)
    /\ lastProductionReports' =
          IF /\ rwis'.status = "ok"
             /\ result.outcome.LifeCycleStage = LifeCycleStageProduction
          THEN LET channels == ReportableChannels(result.outcome)
               IN  [c \in {channels[i] : i \in 1..Len(channels)} |->
                       ObservationsTimestampSeconds(result.outcome).val]
          ELSE lastProductionReports
    /\ UNCHANGED <<F, PredecessorConfigDigest, seqNr, previousOutcome, aos, result,
                   obs, verdict, codec, addedAt>>

\* The engine moves to the next sequence number: the outcome of the round, if
\* there is one, becomes the previous outcome.
NextRound ==
    /\ result.status # "none"
    /\ seqNr < MaxSeq
    /\ seqNr' = seqNr + 1
    /\ previousOutcome' = IF result.status = "ok" THEN result.outcome ELSE previousOutcome
    /\ aos' = <<>>
    /\ result' = NoResult
    /\ rwis' = NoReports
    /\ UNCHANGED <<F, PredecessorConfigDigest, lastProductionReports, obs, verdict, codec,
                   addedAt>>

OutcomeOfProduction ==
    /\ result.status = "none"
    /\ \E list \in Lists(ProductionObservations) :
          \E order \in IterationOrders(list, PredecessorConfigDigest) :
              OutcomeCall(list, order)
    /\ UNCHANGED addedAt

OutcomeOfSuccessor ==
    /\ result.status = "none"
    /\ \E list \in Lists(SuccessorObservations) :
          \E order \in IterationOrders(list, PredecessorConfigDigest) :
              OutcomeCall(list, order)
    /\ UNCHANGED addedAt

Next == OutcomeOfProduction \/ ReportsCall \/ NextRound
NextSuccessor == OutcomeOfSuccessor \/ ReportsCall \/ NextRound

Spec == Init /\ [][Next]_vars
SpecSuccessor == InitSuccessor /\ [][NextSuccessor]_vars

----------------------------------------------------------------------------
(* An instance whose oracles are honest and agree, ramping up its channels *)

\* The oracle calls Observation for the round.
ObservationCall(now, attested, retire, expectedChannelDefs, source, order) ==
    /\ obs.status = "none"
    /\ obs' = Observation(PredecessorConfigDigest, seqNr, previousOutcome, now,
                          attested, retire, expectedChannelDefs, source, order)
    /\ UNCHANGED <<F, PredecessorConfigDigest, seqNr, previousOutcome, aos, result,
                   rwis, lastProductionReports, verdict, codec, addedAt>>

\* The engine calls ValidateObservation on an attributed observation.
ValidateObservationCall(ao) ==
    /\ verdict.status = "none"
    /\ verdict' = [status |-> ValidateObservation(PredecessorConfigDigest, seqNr, ao),
                   ao |-> ao]
    /\ UNCHANGED <<F, PredecessorConfigDigest, seqNr, previousOutcome, aos, result,
                   rwis, lastProductionReports, obs, codec, addedAt>>

\* What the channel definition cache of every oracle holds: more channels
\* than an outcome is meant to take.
RampUpDefinitions ==
    [c \in 1..(MAX_OUTCOME_CHANNEL_DEFINITIONS_LENGTH + 2) |-> DefA]

RampUpSource == [err |-> FALSE, values |-> (1 :> Value(10))]

NoAnswer == [err |-> FALSE, bytes |-> NoRetirement]
StayAnswer == [err |-> FALSE, val |-> FALSE]

ObservationOfRampUp ==
    /\ obs.status = "none"
    /\ result.status = "none"
    /\ ObservationCall(OneSecond, NoAnswer, StayAnswer, RampUpDefinitions, RampUpSource,
                       Ascending(DOMAIN previousOutcome.ValidAfterSeconds))

ValidationOfRampUp ==
    /\ obs.status = "ok"
    /\ verdict.status = "none"
    /\ ValidateObservationCall(obs.ao)

\* Every one of the 2f+1 oracles heard has sent the same observation.
OutcomeOfRampUp ==
    /\ verdict.status = "ok"
    /\ result.status = "none"
    /\ LET list == [i \in 1..(2 * F + 1) |-> obs.ao]
       IN  \E order \in IterationOrders(list, PredecessorConfigDigest) :
               OutcomeCall(list, order)
    /\ UNCHANGED addedAt

RampUpRound ==
    /\ result.status # "none"
    /\ seqNr < MaxRampUpSeq
    /\ seqNr' = seqNr + 1
    /\ previousOutcome' = IF result.status = "ok" THEN result.outcome ELSE previousOutcome
    /\ aos' = <<>>
    /\ result' = NoResult
    /\ obs' = NoObservation
    /\ verdict' = NoVerdict
    /\ UNCHANGED <<F, PredecessorConfigDigest, rwis, lastProductionReports, codec,
                   addedAt>>

NextRampUp == ObservationOfRampUp \/ ValidationOfRampUp \/ OutcomeOfRampUp \/ RampUpRound

\* A single oracle: f = 0.
InitRampUp == InitWith(NilDigest) /\ F = 0

SpecRampUp == InitRampUp /\ [][NextRampUp]_vars

----------------------------------------------------------------------------
(* One oracle: the observation it builds and the observations it validates *)

ManyChannels == [c \in 1..7 |-> DefA]
FewChannels == [c \in 1..4 |-> DefA]

\* A channel over more streams than an observation is meant to carry.
WideChannel ==
    [ReportFormat |-> ReportFormatJSON,
     ChainSelector |-> 1,
     StreamIDs |-> [i \in 1..(MAX_OBSERVATION_STREAM_VALUES_LENGTH + 1) |-> i]]

OutcomeWith(stage, defs, validAfter) ==
    [LifeCycleStage |-> stage,
     ObservationsTimestampNanoseconds |-> OneSecond,
     ChannelDefinitions |-> defs,
     ValidAfterSeconds |-> validAfter,
     StreamMedians |-> (1 :> 10)]

\* Previous outcomes of a round: none that decodes, the initial one, one with
\* seven channels, one with four channels and the valid-after entries of two
\* channels more (taken over from a predecessor), one with a wide channel.
PreviousOutcomes(pcd) ==
    {NilOutcome,
     InitialOutcome(pcd),
     OutcomeWith(LifeCycleStageProduction, ManyChannels, [c \in 1..7 |-> 1]),
     OutcomeWith(IF pcd = NilDigest THEN LifeCycleStageProduction
                 ELSE LifeCycleStageStaging,
                 FewChannels, [c \in (1..4) \cup {11, 12} |-> 1]),
     OutcomeWith(LifeCycleStageProduction, (1 :> WideChannel), (1 :> 1))}

\* What the caches and the data source of the oracle can answer.
AttestedAnswers ==
    {[err |-> TRUE, bytes |-> NoRetirement], NoAnswer, [err |-> FALSE, bytes |-> AttestedR1]}
ShouldRetireAnswers ==
    {[err |-> TRUE, val |-> FALSE], StayAnswer, [err |-> FALSE, val |-> TRUE]}
ExpectedDefinitions == {EmptyMap, FewChannels, ManyChannels}
Sources ==
    {[err |-> TRUE, values |-> EmptyMap],
     RampUpSource,
     [err |-> FALSE,
      values |-> [id \in 1..(MAX_OBSERVATION_STREAM_VALUES_LENGTH + 1) |-> Value(10)]]}

\* The observations an oracle receives from the others.
Sized(retirement, removes, adds, values) ==
    WellFormed(Fields(retirement, FALSE, OneSecond, 1..removes,
                      [c \in 1..adds |-> DefA], [id \in 1..values |-> Value(10)]))

NilValue(valid) ==
    WellFormed(Fields(NoRetirement, FALSE, OneSecond, {}, EmptyMap,
                      (1 :> Value(10)) @@ (2 :> [Valid |-> valid])))

ReceivedObservations ==
    {EmptyObservation, Garbage, PlainAt2, Handover,
     Sized(NoRetirement, 5, 5, MAX_OBSERVATION_STREAM_VALUES_LENGTH),
     Sized(AttestedR1, 5, 5, MAX_OBSERVATION_STREAM_VALUES_LENGTH),
     Sized(NoRetirement, 6, 0, 0),
     Sized(NoRetirement, 0, 6, 0),
     Sized(NoRetirement, 0, 0, MAX_OBSERVATION_STREAM_VALUES_LENGTH + 1),
     Sized(AttestedR1, 6, 6, 1),
     NilValue(TRUE), NilValue(FALSE)}

InitOracle ==
    /\ F \in 0..MaxF
    /\ PredecessorConfigDigest \in {NilDigest, PredecessorDigest}
    /\ seqNr \in 1..2
    /\ previousOutcome \in PreviousOutcomes(PredecessorConfigDigest)
    /\ seqNr = 1 <=> previousOutcome = NilOutcome
    /\ aos = <<>>
    /\ result = NoResult
    /\ rwis = NoReports
    /\ lastProductionReports = EmptyMap
    /\ obs = NoObservation
    /\ verdict = NoVerdict
    /\ codec = NoCodec
    /\ addedAt = EmptyMap

\* The orders in which the loop of lines 335-342 can visit the valid-after
\* entries of the previous outcome. Only the place of the ids that have no
\* definition, in the previous outcome and in the cache, tells: an id the cache
\* holds is passed over, and the ids of the previous definitions that the
\* cache lacks are either all removed already or five of them are and the loop
\* stops at once.
ValidAfterOrders(prev, expectedChannelDefs) ==
    LET stale == (DOMAIN prev.ValidAfterSeconds \ DOMAIN expectedChannelDefs)
                     \ DOMAIN prev.ChannelDefinitions
    IN  {p \o Ascending(DOMAIN prev.ValidAfterSeconds \ stale) : p \in Perms(stale)}

\* The oracle calls Observation; what its channel definition cache held at
\* the call is kept with the answer.
ObservationOfOracle ==
    /\ obs.status = "none"
    /\ \E attested \in AttestedAnswers, retire \in ShouldRetireAnswers,
          expectedChannelDefs \in ExpectedDefinitions, source \in Sources :
          \E order \in ValidAfterOrders(previousOutcome, expectedChannelDefs) :
              /\ obs' = Observation(PredecessorConfigDigest, seqNr, previousOutcome,
                                    TwoSeconds, attested, retire, expectedChannelDefs,
                                    source, order)
                         @@ [expectedChannelDefs |-> expectedChannelDefs]
              /\ UNCHANGED <<F, PredecessorConfigDigest, seqNr, previousOutcome, aos,
                             result, rwis, lastProductionReports, verdict, codec,
                             addedAt>>

\* The oracle validates an observation it has received, or its own.
ValidationOfOracle ==
    /\ obs.status # "none"
    /\ verdict.status = "none"
    /\ \E ao \in ReceivedObservations \cup {obs.ao} : ValidateObservationCall(ao)

NextOracle == ObservationOfOracle \/ ValidationOfOracle

SpecOracle == InitOracle /\ [][NextOracle]_vars

----------------------------------------------------------------------------
(* One Observation call, step by step, and the caller's cancellation signal *)

\* The call in progress: where it stands, whether ctx has been cancelled and
\* at which step, and what the caches and the data source have answered.
RunningObservation ==
    [status |-> "running",
     ao |-> EmptyObservation,
     pc |-> "previousOutcome",
     cancelled |-> FALSE,
     cancelledAt |-> "",
     attested |-> NoAnswer,
     retire |-> StayAnswer,
     expectedChannelDefs |-> EmptyMap,
     order |-> <<>>,
     source |-> [err |-> FALSE, values |-> EmptyMap]]

\* "return nil, fmt.Errorf(...)": an error and no bytes.
ObservationFailed(call) ==
    [call EXCEPT !.status = "error", !.ao = EmptyObservation, !.pc = "done"]

\* Serialization that gives up when ctx is done.
ObservationReturnedUnlessCancelled(call) ==
    IF call.cancelled THEN ObservationFailed(call)
    ELSE LET fetch == /\ PredecessorConfigDigest # NilDigest
                      /\ previousOutcome.LifeCycleStage = LifeCycleStageStaging
             removeChannelDefinitions ==
                 subtractChannelDefinitions(previousOutcome.ChannelDefinitions,
                                            call.expectedChannelDefs,
                                            MAX_OBSERVATION_REMOVE_CHANNEL_IDS_LENGTH)
         IN  [call EXCEPT
               !.status = "ok",
               !.pc = "done",
               !.ao = Marshal(
                   [AttestedPredecessorRetirement |->
                        IF fetch THEN call.attested.bytes ELSE NoRetirement,
                    ShouldRetire |-> call.retire.val,
                    UnixTimestampNanoseconds |-> TwoSeconds,
                    RemoveChannelIDs |->
                        RemoveStaleValidAfter(DOMAIN removeChannelDefinitions, call.order,
                                              call.expectedChannelDefs),
                    AddChannelDefinitions |->
                        subtractChannelDefinitions(call.expectedChannelDefs,
                                                   previousOutcome.ChannelDefinitions,
                                                   MAX_OBSERVATION_ADD_CHANNEL_DEFINITIONS_LENGTH),
                    StreamValues |->
                        Observe(call.source,
                                StreamsOf(previousOutcome.ChannelDefinitions)).values])]

\* Lines 364-380: the observation is serialized from what has been gathered
\* and returned; ctx is not looked at.
ObservationReturned(call) ==
    LET fetch == /\ PredecessorConfigDigest # NilDigest
                 /\ previousOutcome.LifeCycleStage = LifeCycleStageStaging
        removeChannelDefinitions ==
            subtractChannelDefinitions(previousOutcome.ChannelDefinitions,
                                       call.expectedChannelDefs,
                                       MAX_OBSERVATION_REMOVE_CHANNEL_IDS_LENGTH)
    IN  [call EXCEPT
          !.status = "ok",
          !.pc = "done",
          !.ao = Marshal(
              [AttestedPredecessorRetirement |->
                   IF fetch THEN call.attested.bytes ELSE NoRetirement,
               ShouldRetire |-> call.retire.val,
               UnixTimestampNanoseconds |-> TwoSeconds,
               RemoveChannelIDs |->
                   RemoveStaleValidAfter(DOMAIN removeChannelDefinitions, call.order,
                                         call.expectedChannelDefs),
               AddChannelDefinitions |->
                   subtractChannelDefinitions(call.expectedChannelDefs,
                                              previousOutcome.ChannelDefinitions,
                                              MAX_OBSERVATION_ADD_CHANNEL_DEFINITIONS_LENGTH),
               StreamValues |->
                   Observe(call.source,
                           StreamsOf(previousOutcome.ChannelDefinitions)).values])]

CallStep(next) ==
    /\ obs' = next
    /\ UNCHANGED <<F, PredecessorConfigDigest, seqNr, previousOutcome, aos, result,
                   rwis, lastProductionReports, verdict, codec, addedAt>>

\* Lines 289-303: the sequence number, the clock, the previous outcome.
ReadPreviousOutcome ==
    /\ obs.status = "running"
    /\ obs.pc = "previousOutcome"
    /\ CallStep(IF seqNr < 1 THEN ObservationFailed(obs)
                ELSE IF seqNr = 1
                THEN [obs EXCEPT !.status = "ok", !.ao = EmptyObservation, !.pc = "done"]
                ELSE IF previousOutcome = NilOutcome THEN ObservationFailed(obs)
                ELSE [obs EXCEPT !.pc = "attestedRetirementReport"])

\* Lines 305-314: the retirement report cache is read (it takes no ctx).
FetchAttestedRetirementReport ==
    /\ obs.status = "running"
    /\ obs.pc = "attestedRetirementReport"
    /\ IF /\ PredecessorConfigDigest # NilDigest
          /\ previousOutcome.LifeCycleStage = LifeCycleStageStaging
       THEN \E attested \in AttestedAnswers :
               CallStep(IF attested.err
                        THEN ObservationFailed([obs EXCEPT !.attested = attested])
                        ELSE [obs EXCEPT !.attested = attested, !.pc = "shouldRetire"])
       ELSE CallStep([obs EXCEPT !.pc = "shouldRetire"])

\* Lines 316-319: the should-retire cache is read (it takes no ctx).
FetchShouldRetire ==
    /\ obs.status = "running"
    /\ obs.pc = "shouldRetire"
    /\ \E retire \in ShouldRetireAnswers :
          CallStep(IF retire.err
                   THEN ObservationFailed([obs EXCEPT !.retire = retire])
                   ELSE [obs EXCEPT !.retire = retire, !.pc = "channelDefinitions"])

\* Lines 321-345: the channel definition cache is read and the votes are
\* worked out.
ReadChannelDefinitions ==
    /\ obs.status = "running"
    /\ obs.pc = "channelDefinitions"
    /\ \E expectedChannelDefs \in ExpectedDefinitions :
          \E order \in ValidAfterOrders(previousOutcome, expectedChannelDefs) :
              CallStep([obs EXCEPT !.expectedChannelDefs = expectedChannelDefs,
                                   !.order = order,
                                   !.pc = "observe"])

\* Lines 347-362: DataSource.Observe(ctx, streams) is under way and answers
\* with values or with an error; a data source that heeds a cancelled ctx
\* answers with an error.
ObserveStreams ==
    /\ obs.status = "running"
    /\ obs.pc = "observe"
    /\ \E source \in Sources :
          CallStep(IF source.err
                   THEN ObservationFailed([obs EXCEPT !.source = source])
                   ELSE [obs EXCEPT !.source = source, !.pc = "marshal"])

MarshalObservation ==
    /\ obs.status = "running"
    /\ obs.pc = "marshal"
    /\ CallStep(ObservationReturned(obs))

\* The caller cancels ctx while the call is in progress.
CancelObservation ==
    /\ obs.status = "running"
    /\ ~obs.cancelled
    /\ CallStep([obs EXCEPT !.cancelled = TRUE, !.cancelledAt = obs.pc])

InitCancel ==
    /\ F \in 0..MaxF
    /\ PredecessorConfigDigest \in {NilDigest, PredecessorDigest}
    /\ seqNr = 2
    /\ previousOutcome \in PreviousOutcomes(PredecessorConfigDigest) \ {NilOutcome}
    /\ aos = <<>>
    /\ result = NoResult
    /\ rwis = NoReports
    /\ lastProductionReports = EmptyMap
    /\ obs = RunningObservation
    /\ verdict = NoVerdict
    /\ codec = NoCodec
    /\ addedAt = EmptyMap

NextCancel ==
    \/ ReadPreviousOutcome
    \/ FetchAttestedRetirementReport
    \/ FetchShouldRetire
    \/ ReadChannelDefinitions
    \/ ObserveStreams
    \/ MarshalObservation
    \/ CancelObservation

SpecCancel == InitCancel /\ [][NextCancel]_vars

----------------------------------------------------------------------------
(* Reports on the outcomes of an instance with several channels *)

\* A channel over two streams, the higher id first.
DefPair == [ReportFormat |-> ReportFormatJSON, ChainSelector |-> 1, StreamIDs |-> <<2, 1>>]

ReportedChannels == {1, 2, 3}

\* Outcomes at two seconds: up to three channels, each with a valid-after
\* entry of one or two seconds, and medians for some of the streams 1 and 2.
ReportedOutcomes ==
    {[LifeCycleStage |-> stage,
      ObservationsTimestampNanoseconds |-> TwoSeconds,
      ChannelDefinitions |-> defs,
      ValidAfterSeconds |-> validAfter,
      StreamMedians |-> [id \in streams |-> 10 * id]] :
        stage \in {LifeCycleStageStaging, LifeCycleStageProduction, LifeCycleStageRetired},
        defs \in UNION {[S -> {DefA, DefB, DefPair}] : S \in SUBSET ReportedChannels},
        validAfter \in UNION {[S -> {1, 2}] : S \in SUBSET ReportedChannels},
        streams \in SUBSET {1, 2}}

\* The engine hands Reports an outcome of an earlier Outcome call.
InitReports ==
    /\ F \in 0..MaxF
    /\ PredecessorConfigDigest = NilDigest
    /\ seqNr = 2
    /\ previousOutcome = InitialOutcome(NilDigest)
    /\ aos = <<>>
    /\ \E out \in ReportedOutcomes :
          /\ DOMAIN out.ChannelDefinitions \subseteq DOMAIN out.ValidAfterSeconds
          /\ result = Ok(out)
    /\ rwis = NoReports
    /\ lastProductionReports = EmptyMap
    /\ obs = NoObservation
    /\ verdict = NoVerdict
    /\ codec = NoCodec
    /\ addedAt = EmptyMap

SpecReports == InitReports /\ [][ReportsCall]_vars

----------------------------------------------------------------------------
(* Reports through the JSON codec *)

MaxValues == 2

\* The digest of the codec's tests (bytes 1, 2, 3 and zeros), and the digest
\* of 0xff bytes.
ConfigDigests ==
    {[i \in 1..ConfigDigestLength |-> IF i <= 3 THEN i ELSE 0],
     [i \in 1..ConfigDigestLength |-> 255]}

Decimals == {-313, 0, 5, 50, 100, 1000}

StreamValueChoices ==
    {NilStreamValue}
    \cup {ToDecimal(d) : d \in Decimals}
    \cup {Quote(313, 440, 512), Quote(-5, 0, 5)}

\* The reports of the codec's property test: any digest, channel id,
\* valid-after, timestamp, values and specimen flag; sequence number 0 is the
\* one the test's generator leaves out.
CodecReports ==
    [ConfigDigest : ConfigDigests,
     SeqNr : {0, 1, 43},
     ChannelID : {0, 46},
     ValidAfterSeconds : {44},
     ObservationTimestampSeconds : {45},
     Values : UNION {[1..n -> StreamValueChoices] : n \in 0..MaxValues},
     Specimen : BOOLEAN]

InitCodec ==
    /\ F \in 0..MaxF
    /\ PredecessorConfigDigest = NilDigest
    /\ seqNr = 1
    /\ previousOutcome = NilOutcome
    /\ aos = <<>>
    /\ result = NoResult
    /\ rwis = NoReports
    /\ lastProductionReports = EmptyMap
    /\ obs = NoObservation
    /\ verdict = NoVerdict
    /\ \E r \in CodecReports : codec = [status |-> "report", report |-> r]
    /\ addedAt = EmptyMap

EncodeCall ==
    /\ codec.status = "report"
    /\ codec' = [codec EXCEPT !.status = "encoded"] @@
                [encoded |-> JSONReportCodecEncode(codec.report)]
    /\ UNCHANGED <<F, PredecessorConfigDigest, seqNr, previousOutcome, aos, result,
                   rwis, lastProductionReports, obs, verdict, addedAt>>

DecodeCall ==
    /\ codec.status = "encoded"
    /\ ~codec.encoded.err
    /\ codec' = [codec EXCEPT !.status = "decoded"] @@
                [decoded |-> JSONReportCodecDecode(codec.encoded.json)]
    /\ UNCHANGED <<F, PredecessorConfigDigest, seqNr, previousOutcome, aos, result,
                   rwis, lastProductionReports, obs, verdict, addedAt>>

NextCodec == EncodeCall \/ DecodeCall

SpecCodec == InitCodec /\ [][NextCodec]_vars

----------------------------------------------------------------------------
(* An instance whose new channels are followed from the round that adds them *)

AddAAt2 == WellFormed(Fields(NoRetirement, FALSE, TwoSeconds, {}, (1 :> DefA), (1 :> Value(20))))
PlainAt1 == WellFormed(Fields(NoRetirement, FALSE, OneSecond, {}, EmptyMap, (1 :> Value(10))))

\* Oracles that add a channel and report values, their clocks a second
\* apart; none votes to remove a channel.
NewChannelObservations == {AddA, AddAAt2, PlainAt1, PlainAt2}

\* The channels the outcome has and the previous outcome had not are noted
\* with the outcome's timestamp.
AddedAtAfter(prev, res) ==
    IF res.status # "ok" THEN addedAt
    ELSE [c \in DOMAIN res.outcome.ChannelDefinitions |->
             IF c \in DOMAIN prev.ChannelDefinitions /\ c \in DOMAIN addedAt
             THEN addedAt[c]
             ELSE ObservationsTimestampSeconds(res.outcome).val]

OutcomeOfNewChannel ==
    /\ result.status = "none"
    /\ \E list \in Lists(NewChannelObservations) :
          \E order \in IterationOrders(list, PredecessorConfigDigest) :
              OutcomeCall(list, order)
    /\ addedAt' = AddedAtAfter(previousOutcome, result')

NextNewChannel == OutcomeOfNewChannel \/ ReportsCall \/ NextRound

SpecNewChannel == Init /\ [][NextNewChannel]_vars

----------------------------------------------------------------------------
(* A round on the observations that ValidateObservation lets through *)

\* What the oracles send for a round: no bytes at all, bytes that do not
\* decode, plain observations, and observations with a retirement report
\* that verifies or that does not.
SentObservations == {EmptyObservation, Garbage, PlainAt2, AddA, Handover, BadHandover}

\* The engine hands Outcome the observations that ValidateObservation has
\* accepted for the round.
OutcomeOfValidated ==
    /\ result.status = "none"
    /\ \E list \in Lists({ao \in SentObservations :
                            ValidateObservation(PredecessorConfigDigest, seqNr, ao) = "ok"}) :
          \E order \in IterationOrders(list, PredecessorConfigDigest) :
              OutcomeCall(list, order)
    /\ UNCHANGED addedAt

SpecValidated == InitOracle /\ [][OutcomeOfValidated]_vars

----------------------------------------------------------------------------
(* An instance whose honest oracles all hold the same channel definitions *)

MaxConvergeSeq == 6

\* What the channel definition cache of every oracle holds.
ConvergeDefinitions == [c \in 8..19 |-> DefA]

\* The outcome the rounds start from: the initial one, or one with seven
\* channels the caches lack, six that they hold and six of theirs missing,
\* and the valid-after entries of two channels more.
ConvergeOutcomes(pcd) ==
    {InitialOutcome(pcd),
     OutcomeWith(IF pcd = NilDigest THEN LifeCycleStageProduction
                 ELSE LifeCycleStageStaging,
                 [c \in 1..13 |-> DefA], [c \in (1..13) \cup {21, 22} |-> 1])}

InitConverge ==
    /\ F \in 0..MaxF
    /\ PredecessorConfigDigest \in {NilDigest, PredecessorDigest}
    /\ seqNr = 2
    /\ previousOutcome \in ConvergeOutcomes(PredecessorConfigDigest)
    /\ aos = <<>>
    /\ result = NoResult
    /\ rwis = NoReports
    /\ lastProductionReports = EmptyMap
    /\ obs = NoObservation
    /\ verdict = NoVerdict
    /\ codec = NoCodec
    /\ addedAt = EmptyMap

\* An honest oracle builds its observation: the caches answer without error
\* and do not ask for retirement.
ObservationOfConverge ==
    /\ obs.status = "none"
    /\ result.status = "none"
    /\ \E now \in {OneSecond, TwoSeconds}, attested \in AttestedAnswers :
          /\ ~attested.err
          /\ \E order \in ValidAfterOrders(previousOutcome, ConvergeDefinitions) :
                ObservationCall(now, attested, StayAnswer, ConvergeDefinitions,
                                RampUpSource, order)

ConvergeRound ==
    /\ result.status # "none"
    /\ seqNr < MaxConvergeSeq
    /\ seqNr' = seqNr + 1
    /\ previousOutcome' = IF result.status = "ok" THEN result.outcome ELSE previousOutcome
    /\ aos' = <<>>
    /\ result' = NoResult
    /\ obs' = NoObservation
    /\ verdict' = NoVerdict
    /\ UNCHANGED <<F, PredecessorConfigDigest, rwis, lastProductionReports, codec,
                   addedAt>>

NextConverge ==
    \/ ObservationOfConverge
    \/ ValidationOfRampUp
    \/ OutcomeOfRampUp
    \/ ConvergeRound

\* OutcomeOfRampUp can take a step: ENABLED <<OutcomeOfRampUp>>_vars. (The
\* observation has been validated and Outcome has not been called; whatever
\* Outcome returns then changes result.)
OutcomeDue == verdict.status = "ok" /\ result.status = "none"

\* Every oracle and the engine keep taking their steps: weak fairness of
\* each of the four actions, that of OutcomeOfRampUp written out with
\* OutcomeDue for its ENABLED.
SpecConverge ==
    /\ InitConverge /\ [][NextConverge]_vars
    /\ WF_vars(ObservationOfConverge)
    /\ WF_vars(ValidationOfRampUp)
    /\ WF_vars(ConvergeRound)
    /\ ([]<>~OutcomeDue \/ []<><<OutcomeOfRampUp>>_vars)

----------------------------------------------------------------------------
(* The round a state shows, as the claims speak of it *)

\* Outcome returned an outcome for a round after the first.
Done == seqNr > 1 /\ result.status = "ok"

Channels == {1, 2}

Seconds(out) == ObservationsTimestampSeconds(out).val

CarriesValidReport(i) ==
    /\ aos[i].decodes
    /\ aos[i].fields.AttestedPredecessorRetirement # NoRetirement
    /\ ~CheckAttestedRetirementReport(
            PredecessorConfigDigest, aos[i].fields.AttestedPredecessorRetirement).err

ValidReportSeen == \E i \in 1..Len(aos) : CarriesValidReport(i)

\* The observations Outcome counts: those that decode and are not dropped for
\* an attested retirement report that fails the check.
Counted(i) ==
    /\ aos[i].decodes
    /\ \/ aos[i].fields.AttestedPredecessorRetirement = NoRetirement
       \/ CarriesValidReport(i)
       \/ \E j \in 1..(i - 1) : CarriesValidReport(j)

CountedObservations == {i \in 1..Len(aos) : Counted(i)}

ShouldRetireVotes == Cardinality({i \in CountedObservations : aos[i].fields.ShouldRetire})

RemoveVotes(c) ==
    Cardinality({i \in CountedObservations : c \in aos[i].fields.RemoveChannelIDs})

AcceptedReport ==
    LET first == CHOOSE i \in 1..Len(aos) :
                    CarriesValidReport(i) /\ \A j \in 1..(i - 1) : ~CarriesValidReport(j)
    IN  CheckAttestedRetirementReport(
            PredecessorConfigDigest,
            aos[first].fields.AttestedPredecessorRetirement).report

\* The counted observations that vote to add channel c with definition def.
AddVotes(c, def) ==
    Cardinality({i \in CountedObservations :
                    /\ c \in DOMAIN aos[i].fields.AddChannelDefinitions
                    /\ aos[i].fields.AddChannelDefinitions[c] = def})

\* v stands at zero-based index floor(k/2) of the ascending values of the
\* function vals over the k indices of I: at most floor(k/2) values lie
\* below it and more than floor(k/2) do not lie above it.
IsRankKMedian(v, vals, I) ==
    LET half == Cardinality(I) \div 2
    IN  /\ \E i \in I : vals[i] = v
        /\ Cardinality({i \in I : vals[i] < v}) <= half
        /\ Cardinality({i \in I : vals[i] <= v}) > half

CountedTimestamps ==
    [i \in CountedObservations |-> aos[i].fields.UnixTimestampNanoseconds]

Streams == {1, 2}

\* The counted observations that carry a valid value for stream s.
ValidValueObservations(s) ==
    {i \in CountedObservations :
        /\ s \in DOMAIN aos[i].fields.StreamValues
        /\ aos[i].fields.StreamValues[s].Valid}

\* The channel reports among the reports of the round (a retirement report
\* has no channel id).
ChannelReports ==
    {rwis.reports[i].Report.report : i \in
        {j \in 1..Len(rwis.reports) :
            "ChannelID" \in DOMAIN rwis.reports[j].Report.report}}

\* The channel reports in the order Reports returns them.
ChannelReportSeq ==
    LET withChannel == SelectSeq(rwis.reports,
                                 LAMBDA x : "ChannelID" \in DOMAIN x.Report.report)
    IN  [i \in 1..Len(withChannel) |-> withChannel[i].Report.report]

Promoted == previousOutcome.LifeCycleStage = LifeCycleStageStaging /\ ValidReportSeen

WellFormedOnly == SelectSeq(aos, LAMBDA ao : ao.decodes)

MalformedCount == Cardinality({i \in 1..Len(aos) : ~aos[i].decodes})

----------------------------------------------------------------------------
(* Claims *)

\* C1: validity windows do not overlap. A channel reportable in the previous
\* outcome and in the new one has, in the new one, a valid-after that is at
\* least the previous outcome's timestamp in seconds.
C1_WindowsDoNotOverlap ==
    Done =>
        \A c \in Channels :
            (IsReportable(previousOutcome, c) /\ IsReportable(result.outcome, c))
                => result.outcome.ValidAfterSeconds[c] >= Seconds(previousOutcome)

\* C2: gapless handover. The retirement report of a retired instance carries,
\* for every channel reported in the last production round, the valid-until
\* of that report.
C2_GaplessHandover ==
    (Done /\ result.outcome.LifeCycleStage = LifeCycleStageRetired /\ rwis.status = "ok")
        => \A c \in DOMAIN lastProductionReports :
              /\ Len(rwis.reports) >= 1
              /\ c \in DOMAIN rwis.reports[1].Report.report.ValidAfterSeconds
              /\ rwis.reports[1].Report.report.ValidAfterSeconds[c]
                    = lastProductionReports[c]

\* C3 as stated: on promotion with retirement report R, every channel of R has
\* R's valid-after in the outcome, whatever the votes of the round.
C3_HandoverVerbatim ==
    (Done /\ Promoted) =>
        \A c \in DOMAIN AcceptedReport.ValidAfterSeconds :
            /\ c \in DOMAIN result.outcome.ValidAfterSeconds
            /\ result.outcome.ValidAfterSeconds[c] = AcceptedReport.ValidAfterSeconds[c]

\* C3 as amended: on promotion with retirement report R, every channel of R has
\* R's valid-after in the outcome, except that a channel with more than f
\* remove votes in a round that does not end retired has no entry.
C3_HandoverVerbatimUnlessRemoved ==
    (Done /\ Promoted) =>
        \A c \in DOMAIN AcceptedReport.ValidAfterSeconds :
            IF /\ result.outcome.LifeCycleStage # LifeCycleStageRetired
               /\ RemoveVotes(c) > F
            THEN c \notin DOMAIN result.outcome.ValidAfterSeconds
            ELSE /\ c \in DOMAIN result.outcome.ValidAfterSeconds
                 /\ result.outcome.ValidAfterSeconds[c]
                       = AcceptedReport.ValidAfterSeconds[c]

C3_Witness ==
    /\ Done /\ Promoted
    /\ \E c, d \in DOMAIN AcceptedReport.ValidAfterSeconds :
          /\ c \notin DOMAIN result.outcome.ValidAfterSeconds
          /\ d \in DOMAIN result.outcome.ValidAfterSeconds
    /\ \E i \in CountedObservations : aos[i].fields.AddChannelDefinitions # EmptyMap

\* C4: Outcome is deterministic. Whatever the order in which the add votes are
\* visited, the same previous outcome and observations give the same outcome.
C4_Deterministic ==
    Done =>
        \A order \in IterationOrders(aos, PredecessorConfigDigest) :
            Outcome(F, PredecessorConfigDigest, seqNr, previousOutcome, aos, order) = result

\* The outcomes the well-formed observations alone give, one per order in
\* which their add votes can be visited.
AggregateAlone ==
    LET tally == Tally(WellFormedOnly, PredecessorConfigDigest)
    IN  {IF Len(tally.timestampsNanoseconds) = 0 THEN Failed("error")
         ELSE BuildOutcome(previousOutcome, tally, order, F) :
            order \in IterationOrders(WellFormedOnly, PredecessorConfigDigest)}

\* A round after the first, on a previous outcome that decodes, with 2f+1
\* observations of which at most f do not decode.
MalformedMinority ==
    /\ seqNr > 1
    /\ result.status # "none"
    /\ previousOutcome # NilOutcome
    /\ Len(aos) = 2 * F + 1
    /\ MalformedCount <= F

\* C5 as stated: with at most f malformed observations among 2f+1, Outcome
\* succeeds and returns what the well-formed observations alone give.
C5_MalformedInert ==
    MalformedMinority => (result.status = "ok" /\ result \in AggregateAlone)

\* C5 as amended: with at most f malformed observations among 2f+1, Outcome
\* returns what the well-formed observations alone give, be it an outcome or
\* an error.
C5_MalformedInertResult ==
    MalformedMinority =>
        /\ result \in AggregateAlone
        /\ {Outcome(F, PredecessorConfigDigest, seqNr, previousOutcome, aos, order) :
               order \in IterationOrders(aos, PredecessorConfigDigest)} = AggregateAlone

C5_Witness ==
    /\ MalformedMinority
    /\ MalformedCount = 1
    /\ result.status = "ok"
    /\ result.outcome.ChannelDefinitions # EmptyMap

\* C6: retired is terminal and the stage never moves backwards. After a
\* retired outcome comes a retired one, after a production outcome never a
\* staging one.
C6_LifecycleForward ==
    Done =>
        /\ previousOutcome.LifeCycleStage = LifeCycleStageRetired
              => result.outcome.LifeCycleStage = LifeCycleStageRetired
        /\ previousOutcome.LifeCycleStage = LifeCycleStageProduction
              => result.outcome.LifeCycleStage # LifeCycleStageStaging

C6_Witness ==
    /\ Done
    /\ previousOutcome.LifeCycleStage = LifeCycleStageRetired
    /\ ValidReportSeen
    /\ result.outcome.LifeCycleStage = LifeCycleStageRetired

\* C7: the outcome is retired exactly when the previous one was, or the stage
\* after the promotion step is production and more than f counted
\* observations vote to retire.
C7_RetiresExactlyWhen ==
    Done =>
        LET afterPromotion == IF Promoted THEN LifeCycleStageProduction
                              ELSE previousOutcome.LifeCycleStage
        IN  (result.outcome.LifeCycleStage = LifeCycleStageRetired)
               <=> \/ previousOutcome.LifeCycleStage = LifeCycleStageRetired
                   \/ /\ afterPromotion = LifeCycleStageProduction
                      /\ ShouldRetireVotes > F

C7_Witness ==
    /\ Done
    /\ F = 1
    /\ previousOutcome.LifeCycleStage = LifeCycleStageProduction
    /\ ShouldRetireVotes = 2
    /\ result.outcome.LifeCycleStage = LifeCycleStageRetired

\* C8: an instance leaves staging exactly when a counted observation carries
\* an attested retirement report that passes the check; without one it stays
\* in staging and no valid-after comes from a report.
C8_LeavesStagingOnValidReport ==
    (Done /\ previousOutcome.LifeCycleStage = LifeCycleStageStaging) =>
        /\ (result.outcome.LifeCycleStage # LifeCycleStageStaging) <=> ValidReportSeen
        /\ ~ValidReportSeen =>
              \A c \in DOMAIN result.outcome.ValidAfterSeconds :
                  /\ c \in DOMAIN previousOutcome.ValidAfterSeconds
                           \cup DOMAIN result.outcome.ChannelDefinitions
                  /\ result.outcome.ValidAfterSeconds[c] \in
                        {Seconds(previousOutcome), Seconds(result.outcome)}
                        \cup (IF c \in DOMAIN previousOutcome.ValidAfterSeconds
                              THEN {previousOutcome.ValidAfterSeconds[c]} ELSE {})

C8_Witness ==
    /\ Done
    /\ F = 1
    /\ previousOutcome.LifeCycleStage = LifeCycleStageStaging
    /\ Cardinality({i \in 1..Len(aos) : CarriesValidReport(i)}) = 1
    /\ result.outcome.LifeCycleStage = LifeCycleStageProduction

\* C9: a retired outcome has the channel definitions of the previous outcome,
\* whatever the add and remove votes.
C9_RetiredFreezesChannels ==
    (Done /\ result.outcome.LifeCycleStage = LifeCycleStageRetired)
        => result.outcome.ChannelDefinitions = previousOutcome.ChannelDefinitions

C9_Witness ==
    /\ Done
    /\ previousOutcome.LifeCycleStage = LifeCycleStageProduction
    /\ result.outcome.LifeCycleStage = LifeCycleStageRetired
    /\ \E c \in DOMAIN previousOutcome.ChannelDefinitions : RemoveVotes(c) > F

\* C10: for a retired outcome Reports returns the retirement report and
\* nothing else; the report carries the outcome's valid-after map and the info
\* {retired, json}.
C10_RetiredEmitsRetirementReportOnly ==
    (Done /\ result.outcome.LifeCycleStage = LifeCycleStageRetired /\ rwis.status # "none")
        => /\ rwis.status = "ok"
           /\ Len(rwis.reports) = 1
           /\ rwis.reports[1].Report.report
                 = [ValidAfterSeconds |-> result.outcome.ValidAfterSeconds]
           /\ rwis.reports[1].Info
                 = [LifeCycleStage |-> LifeCycleStageRetired,
                    ReportFormat |-> ReportFormatJSON]

C10_Witness ==
    /\ Done
    /\ result.outcome.LifeCycleStage = LifeCycleStageRetired
    /\ rwis.status = "ok"
    /\ \E c \in Channels :
          IsReportable([result.outcome EXCEPT !.LifeCycleStage = LifeCycleStageProduction], c)

\* C11: at seqNr 1, given at least 2f+1 observations, Outcome returns the
\* initial outcome whatever the observations hold: production without a
\* predecessor and staging with one, timestamp 0, nothing else.
C11_FirstOutcomeIsInitial ==
    (seqNr = 1 /\ result.status # "none" /\ Len(aos) >= 2 * F + 1) =>
        LET expected(stage) ==
                [status |-> "ok",
                 outcome |-> [LifeCycleStage |-> stage,
                              ObservationsTimestampNanoseconds |-> 0,
                              ChannelDefinitions |-> <<>>,
                              ValidAfterSeconds |-> <<>>,
                              StreamMedians |-> <<>>]]
        IN  /\ result = expected(IF PredecessorConfigDigest = NilDigest
                                 THEN "production" ELSE "staging")
            /\ \A order \in IterationOrders(aos, PredecessorConfigDigest) :
                  /\ Outcome(F, NilDigest, seqNr, previousOutcome, aos, order)
                        = expected("production")
                  /\ Outcome(F, PredecessorDigest, seqNr, previousOutcome, aos, order)
                        = expected("staging")

C11_Witness ==
    /\ seqNr = 1
    /\ result.status = "ok"
    /\ Len(aos) = 2 * F + 1
    /\ F = 1
    /\ \E i, j \in 1..Len(aos) :
          /\ aos[i].decodes /\ aos[i].fields.AddChannelDefinitions # EmptyMap
          /\ aos[j].decodes /\ aos[j].fields.ShouldRetire

\* C12: a channel leaves the definitions only on more than f remove votes of
\* counted observations, and a definition enters them only on more than f
\* counted votes to add exactly that definition.
C12_DefinitionsChangeOnlyOnQuorum ==
    Done =>
        LET old == previousOutcome.ChannelDefinitions
            new == result.outcome.ChannelDefinitions
        IN  /\ \A c \in DOMAIN old :
                  (c \notin DOMAIN new \/ new[c] # old[c]) => RemoveVotes(c) > F
            /\ \A c \in DOMAIN new :
                  (c \notin DOMAIN old \/ new[c] # old[c]) => AddVotes(c, new[c]) > F

C12_Witness ==
    /\ Done
    /\ F = 1
    /\ \E c \in DOMAIN previousOutcome.ChannelDefinitions :
          /\ c \notin DOMAIN result.outcome.ChannelDefinitions
          /\ RemoveVotes(c) = 2
          /\ AddVotes(c, DefA) = 1

\* C13: the channel definitions of an outcome hold at most
\* MAX_OUTCOME_CHANNEL_DEFINITIONS_LENGTH channels.
C13_AtMost500Channels ==
    Done => Cardinality(DOMAIN result.outcome.ChannelDefinitions)
               <= MAX_OUTCOME_CHANNEL_DEFINITIONS_LENGTH

\* C14: the timestamp of the outcome is the element at zero-based index
\* floor(k/2) of the ascending timestamps of the k counted observations.
C14_TimestampIsRankKMedian ==
    Done => IsRankKMedian(result.outcome.ObservationsTimestampNanoseconds,
                          CountedTimestamps, CountedObservations)

C14_Witness ==
    /\ Done
    /\ Cardinality(CountedObservations) = 2
    /\ \E i, j \in CountedObservations :
          /\ CountedTimestamps[i] < CountedTimestamps[j]
          /\ result.outcome.ObservationsTimestampNanoseconds = CountedTimestamps[j]
    /\ \E i \in 1..Len(aos) : ~aos[i].decodes

\* C15: a stream has a median in the outcome exactly when at least f+1 counted
\* observations carry a valid value for it in this round, and the median is
\* the element at zero-based index floor(m/2) of those m values in ascending
\* order; nothing comes from the previous outcome.
C15_StreamMedians ==
    Done =>
        /\ DOMAIN result.outcome.StreamMedians \subseteq Streams
        /\ \A s \in Streams :
              /\ s \in DOMAIN result.outcome.StreamMedians
                    <=> Cardinality(ValidValueObservations(s)) >= F + 1
              /\ s \in DOMAIN result.outcome.StreamMedians =>
                    IsRankKMedian(result.outcome.StreamMedians[s],
                                  [i \in ValidValueObservations(s) |->
                                      aos[i].fields.StreamValues[s].Val],
                                  ValidValueObservations(s))

C15_Witness ==
    /\ Done
    /\ F = 1
    /\ 1 \in DOMAIN previousOutcome.StreamMedians
    /\ Cardinality(ValidValueObservations(1)) = 1
    /\ 1 \notin DOMAIN result.outcome.StreamMedians
    /\ \E i \in CountedObservations :
          /\ 1 \in DOMAIN aos[i].fields.StreamValues
          /\ ~aos[i].fields.StreamValues[1].Valid

C17_ValidateObservationAcceptsExactly ==
    (/\ verdict.status # "none"
     /\ seqNr > 1
     /\ ~IsEmptyObservation(verdict.ao)
     /\ verdict.ao.decodes) =>
        LET o == verdict.ao.fields
        IN  verdict.status = "ok" <=>
              /\ o.AttestedPredecessorRetirement = "" \/ PredecessorConfigDigest # NilDigest
              /\ Cardinality(DOMAIN o.AddChannelDefinitions) <= 5
              /\ Cardinality(o.RemoveChannelIDs) <= 5
              /\ Cardinality(DOMAIN o.StreamValues) <= 1000
              /\ \A id \in DOMAIN o.StreamValues :
                    o.StreamValues[id].Valid => "Val" \in DOMAIN o.StreamValues[id]

C17_Witness ==
    /\ verdict.status = "ok"
    /\ seqNr > 1
    /\ ~IsEmptyObservation(verdict.ao)
    /\ verdict.ao.decodes
    /\ verdict.ao.fields.AttestedPredecessorRetirement # ""
    /\ Cardinality(DOMAIN verdict.ao.fields.AddChannelDefinitions) = 5
    /\ Cardinality(verdict.ao.fields.RemoveChannelIDs) = 5
    /\ Cardinality(DOMAIN verdict.ao.fields.StreamValues) = 1000

\* C18: after seqNr 1, every observation that Observation returns has at most
\* 5 remove votes, at most 5 add votes and at most 1000 stream values, and
\* ValidateObservation does not reject it for its size.
C18_ProducerKeepsSizeBounds ==
    (obs.status = "ok" /\ seqNr > 1) =>
        /\ Cardinality(obs.ao.fields.RemoveChannelIDs) <= 5
        /\ Cardinality(DOMAIN obs.ao.fields.AddChannelDefinitions) <= 5
        /\ Cardinality(DOMAIN obs.ao.fields.StreamValues) <= 1000
        /\ ValidateObservation(PredecessorConfigDigest, seqNr, obs.ao) \notin
              {"AddChannelDefinitions is too long", "RemoveChannelIDs is too long",
               "StreamValues is too long"}

\* C19: every channel report has the outcome's valid-after entry of its
\* channel as ValidAfterSeconds and the outcome's timestamp in seconds as
\* ValidUntilSeconds, the former below the latter; a channel without entry, or
\* with an entry that is not below the timestamp, gets no report.
C19_ReportWindowNotEmpty ==
    (Done /\ rwis.status = "ok") =>
        /\ \A r \in ChannelReports :
              /\ r.ChannelID \in DOMAIN result.outcome.ValidAfterSeconds
              /\ r.ValidAfterSeconds = result.outcome.ValidAfterSeconds[r.ChannelID]
              /\ r.ValidUntilSeconds
                    = result.outcome.ObservationsTimestampNanoseconds \div 1000000000
              /\ r.ValidAfterSeconds < r.ValidUntilSeconds
        /\ \A c \in DOMAIN result.outcome.ChannelDefinitions :
              (\/ c \notin DOMAIN result.outcome.ValidAfterSeconds
               \/ result.outcome.ValidAfterSeconds[c]
                     >= result.outcome.ObservationsTimestampNanoseconds \div 1000000000)
                 => ~\E r \in ChannelReports : r.ChannelID = c

C19_Witness ==
    /\ Done
    /\ rwis.status = "ok"
    /\ \E r \in ChannelReports :
          /\ r.ValidAfterSeconds = 1
          /\ r.ValidUntilSeconds = 2

\* C20: a channel report has one value per entry of the channel's list of
\* stream ids, in the order of the list, each the median of its stream in the
\* outcome; a channel with a stream that has no median gets no report; the
\* reports come in ascending order of channel id, at most one per channel.
C20_ReportsWithoutHoles ==
    (Done /\ rwis.status = "ok") =>
        LET out == result.outcome
            reports == ChannelReportSeq
        IN  /\ \A i \in 1..Len(reports) :
                  LET ids == out.ChannelDefinitions[reports[i].ChannelID].StreamIDs
                  IN  /\ Len(reports[i].Values) = Len(ids)
                      /\ \A k \in 1..Len(ids) :
                            /\ ids[k] \in DOMAIN out.StreamMedians
                            /\ reports[i].Values[k] = out.StreamMedians[ids[k]]
            /\ \A c \in DOMAIN out.ChannelDefinitions :
                  (\E k \in 1..Len(out.ChannelDefinitions[c].StreamIDs) :
                      out.ChannelDefinitions[c].StreamIDs[k] \notin DOMAIN out.StreamMedians)
                     => ~\E i \in 1..Len(reports) : reports[i].ChannelID = c
            /\ \A i, j \in 1..Len(reports) :
                  i < j => reports[i].ChannelID < reports[j].ChannelID

C20_Witness ==
    /\ Done
    /\ rwis.status = "ok"
    /\ Len(ChannelReportSeq) = 3
    /\ ChannelReportSeq[1].Values = <<10>>
    /\ ChannelReportSeq[2].Values = <<20, 10>>

\* C21: every channel report is a specimen exactly when the stage of the
\* outcome it is made from is not production: the reports of a staging
\* instance are all specimens, those of a production instance never are.
C21_SpecimenUnlessProduction ==
    (Done /\ rwis.status = "ok") =>
        \A i \in 1..Len(rwis.reports) :
            "ChannelID" \in DOMAIN rwis.reports[i].Report.report =>
                /\ result.outcome.LifeCycleStage = LifeCycleStageStaging
                      => rwis.reports[i].Report.report.Specimen
                /\ result.outcome.LifeCycleStage = LifeCycleStageProduction
                      => ~rwis.reports[i].Report.report.Specimen
                /\ rwis.reports[i].Report.report.Specimen
                      <=> (result.outcome.LifeCycleStage # LifeCycleStageProduction)

C21_Witness ==
    /\ Done
    /\ rwis.status = "ok"
    /\ result.outcome.LifeCycleStage = LifeCycleStageStaging
    /\ Len(ChannelReportSeq) = 2
    /\ \A i \in 1..2 : ChannelReportSeq[i].Specimen

\* The reportable channels of the outcome whose report format has no codec.
WithoutCodec ==
    LET channels == ReportableChannels(result.outcome)
    IN  {channels[i] : i \in {j \in 1..Len(channels) :
            result.outcome.ChannelDefinitions[channels[j]].ReportFormat \notin Codecs}}

\* C22: when a reportable channel has a report format without a registered
\* codec, Reports returns an error and not a single report, not even those of
\* the channels with lower ids that it had encoded before.
C22_MissingCodecFailsReports ==
    (Done /\ rwis.status # "none" /\ WithoutCodec # {}) =>
        /\ rwis.status = "error"
        /\ rwis.reports = <<>>

C22_Witness ==
    /\ Done
    /\ rwis.status = "error"
    /\ ReportableChannels(result.outcome) = <<1, 2>>
    /\ result.outcome.ChannelDefinitions[1].ReportFormat \in Codecs
    /\ WithoutCodec = {2}

\* C23: a report with a sequence number of at least 1 (any config digest,
\* channel id, valid-after, timestamp, list of Decimal, Quote and absent
\* values, specimen flag) comes back from Decode(Encode(r)) without error and
\* equal to r in every field.
C23_CodecRoundTrip ==
    (codec.status = "decoded" /\ codec.report.SeqNr >= 1) =>
        /\ ~codec.decoded.err
        /\ codec.decoded.report.ConfigDigest = codec.report.ConfigDigest
        /\ codec.decoded.report.SeqNr = codec.report.SeqNr
        /\ codec.decoded.report.ChannelID = codec.report.ChannelID
        /\ codec.decoded.report.ValidAfterSeconds = codec.report.ValidAfterSeconds
        /\ codec.decoded.report.ObservationTimestampSeconds =
              codec.report.ObservationTimestampSeconds
        /\ codec.decoded.report.Values = codec.report.Values
        /\ codec.decoded.report.Specimen = codec.report.Specimen

C23_Witness ==
    /\ codec.status = "decoded"
    /\ ~codec.decoded.err
    /\ codec.report.SeqNr = 43
    /\ codec.report.Values = <<ToDecimal(5), Quote(313, 440, 512)>>
    /\ codec.encoded.json.Values[1].Value = <<"0", ".", "0", "5">>
    /\ codec.encoded.json.Values[2].Value =
          <<"Q{Bid: ", "3", ".", "1", "3", ", Benchmark: ", "4", ".", "4",
            ", Ask: ", "5", ".", "1", "2", "}">>
    /\ Len(codec.encoded.json.ConfigDigest) = 64
    /\ codec.decoded.report = codec.report

\* C24: in a round without promotion, a channel that has a valid-after entry
\* in the previous outcome and was not reportable under the previous outcome
\* keeps that entry's value (as long as the round does not remove the entry);
\* so the valid-after map of a retired instance, where no channel is
\* reportable, stays the same from round to round.
C24_SkippedChannelKeepsValidAfter ==
    (Done /\ ~Promoted) =>
        \A c \in DOMAIN previousOutcome.ValidAfterSeconds :
            (/\ ~IsReportable(previousOutcome, c)
             /\ c \in DOMAIN result.outcome.ValidAfterSeconds)
                => result.outcome.ValidAfterSeconds[c] = previousOutcome.ValidAfterSeconds[c]

\* Observation i carries an attested retirement report that Outcome checks
\* (no earlier observation of the list carried a valid one) and that fails
\* the check.
BadReport(i) ==
    /\ aos[i].decodes
    /\ aos[i].fields.AttestedPredecessorRetirement # NoRetirement
    /\ \A j \in 1..i : ~CarriesValidReport(j)

BadReports == {i \in 1..Len(aos) : BadReport(i)}

\* The observations of the round with the failing reports blanked out.
ReportsBlanked ==
    [i \in 1..Len(aos) |->
        IF BadReport(i)
        THEN [aos[i] EXCEPT !.fields.AttestedPredecessorRetirement = NoRetirement]
        ELSE aos[i]]

\* The observations of the round without those that carry a failing report.
BadReportsDropped ==
    LET kept == SortedSeqOfSet({i \in 1..Len(aos) : ~BadReport(i)})
    IN  [k \in 1..Len(kept) |-> aos[kept[k]]]

\* What the round can return when the observations counted in it are those
\* of list (the engine still supplied Len(aos) observations).
RoundResults(list) ==
    LET tally == Tally(list, PredecessorConfigDigest)
    IN  IF \/ Len(aos) < 2 * F + 1
           \/ previousOutcome = NilOutcome
           \/ Len(tally.timestampsNanoseconds) = 0
        THEN {Failed("error")}
        ELSE {BuildOutcome(previousOutcome, tally, order, F) :
                 order \in IterationOrders(list, PredecessorConfigDigest)}

BadReportRound == seqNr > 1 /\ result.status # "none" /\ BadReports # {}

\* C25 as claimed: an attested retirement report that fails the check costs
\* the observation only that field; the round is the one it would be with
\* the field empty, the observation's timestamp, should-retire vote, add and
\* remove votes and stream values counted.
C25_BadReportOnlyFieldIgnored ==
    BadReportRound => result \in RoundResults(ReportsBlanked)

\* C25: an observation whose attested retirement report is checked and fails
\* the check is skipped as a whole; the round is the one it would be without
\* the observation, none of its timestamp, should-retire vote, add and remove
\* votes and stream values counted.
C25_BadReportDropsObservation ==
    BadReportRound => result \in RoundResults(BadReportsDropped)

C25_Witness ==
    /\ BadReportRound
    /\ Len(aos) = 3
    /\ BadReports = {1}
    /\ aos[1].fields.ShouldRetire
    /\ aos[1].fields.RemoveChannelIDs = {1}
    /\ CarriesValidReport(2)
    /\ result.status = "ok"
    /\ result.outcome.LifeCycleStage = LifeCycleStageProduction
    /\ Seconds(result.outcome) = 1

\* C26: in a round that does not end retired and does not promote, a channel
\* id with a valid-after entry in the previous outcome has an entry in the
\* new outcome exactly when at most f counted observations voted to remove
\* it; having no channel definition does not cost a channel its entry.
C26_ValidAfterDeletedOnlyOnVote ==
    (/\ Done
     /\ ~Promoted
     /\ result.outcome.LifeCycleStage # LifeCycleStageRetired) =>
        \A c \in DOMAIN previousOutcome.ValidAfterSeconds :
            c \in DOMAIN result.outcome.ValidAfterSeconds <=> RemoveVotes(c) <= F

C26_Witness ==
    /\ Done
    /\ ~Promoted
    /\ F = 1
    /\ result.outcome.LifeCycleStage = LifeCycleStageProduction
    /\ DOMAIN previousOutcome.ValidAfterSeconds = {1, 2}
    /\ RemoveVotes(1) = 2
    /\ DOMAIN result.outcome.ChannelDefinitions = {}
    /\ DOMAIN result.outcome.ValidAfterSeconds = {2}

\* The valid-after entries the round starts from: the retirement report's on
\* promotion, else the previous outcome's.
InheritedChannels ==
    IF Promoted THEN DOMAIN AcceptedReport.ValidAfterSeconds
    ELSE DOMAIN previousOutcome.ValidAfterSeconds

\* C27: a channel of the new outcome's channel definitions without an
\* inherited valid-after entry (and not voted out in the round) gets the new
\* outcome's observations timestamp as valid-after, so it is not reportable
\* in the round that adds it; and a report for a channel comes only in a
\* later round whose timestamp in seconds is strictly larger than that of the
\* round that added the channel.
C27_NewChannelReportableLater ==
    /\ Done =>
          \A c \in DOMAIN result.outcome.ChannelDefinitions :
              (c \notin InheritedChannels /\ RemoveVotes(c) <= F) =>
                  /\ c \in DOMAIN result.outcome.ValidAfterSeconds
                  /\ result.outcome.ValidAfterSeconds[c] = Seconds(result.outcome)
                  /\ ~IsReportable(result.outcome, c)
    /\ (Done /\ rwis.status = "ok") =>
          \A r \in ChannelReports :
              r.ChannelID \in DOMAIN addedAt => r.ValidUntilSeconds > addedAt[r.ChannelID]

\* C28: a channel of the previous outcome that the round does not remove
\* (at most f remove votes, or the instance retired) keeps its definition,
\* also when more than f observations vote to add another definition under
\* its id; a definition changes only in a round that removes the channel.
C28_AddNeverOverwrites ==
    Done =>
        \A c \in DOMAIN previousOutcome.ChannelDefinitions :
            /\ (\/ RemoveVotes(c) <= F
                \/ result.outcome.LifeCycleStage = LifeCycleStageRetired) =>
                  /\ c \in DOMAIN result.outcome.ChannelDefinitions
                  /\ result.outcome.ChannelDefinitions[c] =
                        previousOutcome.ChannelDefinitions[c]
            /\ (/\ c \in DOMAIN result.outcome.ChannelDefinitions
                /\ result.outcome.ChannelDefinitions[c] #
                      previousOutcome.ChannelDefinitions[c]) => RemoveVotes(c) > F

C28_Witness ==
    /\ Done
    /\ F = 1
    /\ result.outcome.LifeCycleStage = LifeCycleStageProduction
    /\ previousOutcome.ChannelDefinitions = (1 :> DefA)
    /\ AddVotes(1, DefB) = 2
    /\ RemoveVotes(1) = 0
    /\ result.outcome.ChannelDefinitions = (1 :> DefA)

\* The channel ids an honest oracle has cause to vote out: those of the
\* previous outcome's definitions or valid-after entries that the channel
\* definition cache does not hold.
RemoveCandidates ==
    (DOMAIN previousOutcome.ChannelDefinitions \cup DOMAIN previousOutcome.ValidAfterSeconds)
        \ DOMAIN obs.expectedChannelDefs

\* C29: the remove votes of an observation are the candidates when there are
\* at most five of them, and otherwise the five smallest candidate ids.
C29_RemoveVotesCanonical ==
    (seqNr > 1 /\ obs.status = "ok") =>
        LET removes == obs.ao.fields.RemoveChannelIDs
        IN  /\ removes \subseteq RemoveCandidates
            /\ Cardinality(RemoveCandidates) <= MAX_OBSERVATION_REMOVE_CHANNEL_IDS_LENGTH
                  => removes = RemoveCandidates
            /\ Cardinality(RemoveCandidates) > MAX_OBSERVATION_REMOVE_CHANNEL_IDS_LENGTH
                  => /\ Cardinality(removes) = MAX_OBSERVATION_REMOVE_CHANNEL_IDS_LENGTH
                     /\ \A c \in removes : \A d \in RemoveCandidates \ removes : c < d

\* The call has returned after the caller's signal fired during it.
ReturnedAfterSignal == obs.pc = "done" /\ obs.cancelled

\* C30 as claimed: a signal that fires while Observation is in progress, at
\* whichever step, makes it return an error and no observation bytes.
C30_CancelledObservationFails ==
    ReturnedAfterSignal => (obs.status = "error" /\ obs.ao = EmptyObservation)

\* C30: the signal reaches Observation through the data source only. What
\* the call returns is what the answers of the caches and of the data source
\* make it, signal or not: an error and no bytes when a read or the data
\* source fails (as a data source that heeds the signal does), else the
\* complete observation, never a part of one; a signal that fires once the
\* data source has answered leaves the call returning the observation.
C30_SignalOnlyThroughDataSource ==
    obs.pc = "done" =>
        /\ [status |-> obs.status, ao |-> obs.ao] =
              Observation(PredecessorConfigDigest, seqNr, previousOutcome, TwoSeconds,
                          obs.attested, obs.retire, obs.expectedChannelDefs,
                          obs.source, obs.order)
        /\ obs.status = "error" <=> (obs.attested.err \/ obs.retire.err \/ obs.source.err)
        /\ obs.status = "error" => obs.ao = EmptyObservation
        /\ (obs.cancelled /\ obs.cancelledAt = "marshal") => obs.status = "ok"

C30_Witness ==
    /\ ReturnedAfterSignal
    /\ obs.cancelledAt = "marshal"
    /\ obs.status = "ok"
    /\ obs.ao.decodes
    /\ obs.ao.fields.UnixTimestampNanoseconds = TwoSeconds
    /\ obs.ao.fields.RemoveChannelIDs = {1, 2, 3, 4, 11}
    /\ obs.ao.fields.StreamValues = (1 :> Value(10))

\* The timestamps of the observations of the round that ValidateObservation
\* accepts, in their order; an observation of no bytes stands for an
\* observation whose fields are all zero.
AcceptedTimestamps ==
    LET accepted == SelectSeq(aos, LAMBDA ao :
                        ValidateObservation(PredecessorConfigDigest, seqNr, ao) = "ok")
    IN  [i \in 1..Len(accepted) |->
            IF IsEmptyObservation(accepted[i]) THEN ZeroFields.UnixTimestampNanoseconds
            ELSE accepted[i].fields.UnixTimestampNanoseconds]

\* C31: after seqNr 1, the observations Outcome counts are exactly those
\* ValidateObservation accepts, an observation of no bytes included: the
\* timestamps Outcome gathers for its median are theirs.
C31_CountedIsAccepted ==
    (seqNr > 1 /\ result.status # "none" /\ previousOutcome # NilOutcome
        /\ Len(aos) >= 2 * F + 1) =>
        Tally(aos, PredecessorConfigDigest).timestampsNanoseconds = AcceptedTimestamps

\* What Outcome can return for a list of observations, over the orders in
\* which the add votes can be visited.
OutcomesOf(list) ==
    {Outcome(F, PredecessorConfigDigest, seqNr, previousOutcome, list, order) :
        order \in IterationOrders(list, PredecessorConfigDigest)}

\* C32: Outcome does not depend on the order of the attributed observations:
\* the observations of the round in any other order give the same result.
C32_ObservationOrderIrrelevant ==
    (seqNr > 1 /\ result.status # "none") =>
        \A p \in Perms(1..Len(aos)) :
            OutcomesOf([i \in 1..Len(aos) |-> aos[p[i]]]) = OutcomesOf(aos)

\* C33: whether a channel counts as reportable under the previous outcome is
\* judged on the previous outcome as it was: the valid-after entries carried
\* over are those that its own channel definitions give, whatever the round
\* adds or removes.
C33_ReportableUnderPreviousAsItWas ==
    (Done /\ ~Promoted) =>
        \A c \in DOMAIN previousOutcome.ValidAfterSeconds
                    \cap DOMAIN result.outcome.ValidAfterSeconds :
            result.outcome.ValidAfterSeconds[c] =
                CarriedValidAfterSeconds(previousOutcome,
                                         previousOutcome.ChannelDefinitions, c)

\* C34: without promotion, valid_after_seconds never moves backwards: a
\* channel with an entry in the previous outcome and in the new one has in
\* the new one an entry that is at least the previous one.
C34_ValidAfterNeverBackwards ==
    (Done /\ ~Promoted) =>
        \A c \in DOMAIN previousOutcome.ValidAfterSeconds
                    \cap DOMAIN result.outcome.ValidAfterSeconds :
            result.outcome.ValidAfterSeconds[c] >= previousOutcome.ValidAfterSeconds[c]

\* C35: after a successful Outcome step at seqNr > 1, every channel id in the
\* outcome's channel_definitions has an entry in its valid_after_seconds.
C35_DefinedChannelsHaveValidAfter ==
    Done => DOMAIN result.outcome.ChannelDefinitions
                \subseteq DOMAIN result.outcome.ValidAfterSeconds

\* An observation as an honest oracle builds it: bytes that decode, with no
\* attested retirement report or one that verifies.
HonestLooking(i) ==
    /\ aos[i].decodes
    /\ \/ aos[i].fields.AttestedPredecessorRetirement = NoRetirement
       \/ CarriesValidReport(i)

\* The ways to tell the observations of the round into at most f faulty ones,
\* of any content, and honest ones: the sets of the faulty.
FaultySets ==
    {B \in SUBSET (1..Len(aos)) :
        /\ Cardinality(B) <= F
        /\ \A i \in (1..Len(aos)) \ B : HonestLooking(i)}

\* C36: in a round after the first with at least 2f+1 observations of which
\* at most f are faulty, the timestamp of the outcome lies between the least
\* and the greatest timestamp of the honest observations.
C36_TimestampWithinHonest ==
    (Done /\ Len(aos) >= 2 * F + 1) =>
        \A B \in FaultySets :
            \E i, j \in (1..Len(aos)) \ B :
                /\ aos[i].fields.UnixTimestampNanoseconds
                      <= result.outcome.ObservationsTimestampNanoseconds
                /\ result.outcome.ObservationsTimestampNanoseconds
                      <= aos[j].fields.UnixTimestampNanoseconds

C36_Witness ==
    /\ Done
    /\ F = 1
    /\ Len(aos) = 3
    /\ \E B \in FaultySets :
          \E b \in B :
              /\ aos[b].decodes
              /\ \A i \in (1..Len(aos)) \ B :
                    aos[i].fields.UnixTimestampNanoseconds
                        < aos[b].fields.UnixTimestampNanoseconds

\* C37: in a round after the first with at least 2f+1 observations of which
\* at most f are faulty, every stream median of the outcome lies between the
\* least and the greatest of the values that honest observations carry as
\* valid for the stream, however few of them carry one.
C37_StreamMediansWithinHonest ==
    (Done /\ Len(aos) >= 2 * F + 1) =>
        \A B \in FaultySets :
            \A s \in DOMAIN result.outcome.StreamMedians :
                \E i, j \in ValidValueObservations(s) \ B :
                    /\ aos[i].fields.StreamValues[s].Val <= result.outcome.StreamMedians[s]
                    /\ result.outcome.StreamMedians[s] <= aos[j].fields.StreamValues[s].Val

\* The channel ids of an outcome are those the caches hold.
ChannelsAgree(out) == DOMAIN out.ChannelDefinitions = DOMAIN ConvergeDefinitions

\* The k lowest ids of a set.
Lowest(S, k) == LET ids == Truncate(Ascending(S), k) IN {ids[i] : i \in 1..Len(ids)}

\* The round has added the (at most 5) lowest missing ids and removed the (at
\* most 5) lowest surplus ids, and nothing else.
ConvergeStep ==
    result.status # "none" =>
        /\ result.status = "ok"
        /\ DOMAIN result.outcome.ChannelDefinitions =
              (DOMAIN previousOutcome.ChannelDefinitions
                  \ Lowest(DOMAIN previousOutcome.ChannelDefinitions
                               \ DOMAIN ConvergeDefinitions,
                           MAX_OBSERVATION_REMOVE_CHANNEL_IDS_LENGTH))
              \cup Lowest(DOMAIN ConvergeDefinitions
                              \ DOMAIN previousOutcome.ChannelDefinitions,
                          MAX_OBSERVATION_ADD_CHANNEL_DEFINITIONS_LENGTH)

\* C38: when every observation is built by Observation from the true
\* previous outcome with one fixed set of expected definitions and the
\* instance is not retired, each round adds the min(5, missing) lowest missing
\* ids and removes the min(5, surplus) lowest surplus ids, and after finitely
\* many rounds the channel ids of the outcome are those of the expected set
\* and stay so.
C38_ChannelsConverge ==
    /\ []ConvergeStep
    /\ <>[](/\ ChannelsAgree(previousOutcome)
            /\ result.status # "none" => ChannelsAgree(result.outcome))

C38_Witness ==
    /\ seqNr = 3
    /\ F = 1
    /\ result.status = "ok"
    /\ ChannelsAgree(result.outcome)
    /\ ~ChannelsAgree(previousOutcome)
    /\ DOMAIN previousOutcome.ChannelDefinitions = 6..18

====
